---- MODULE Spec2Model ----
(***************************************************************************)
(* The Librarian catalog: File, FileInstance and FileEvent tables, the     *)
(* deletion safety interlock, and the RPC endpoints that mutate them.      *)
(* Modelled from src/librarian_server/file.py, the later of the two        *)
(* generations of file.py.  The earlier one, src/server/librarian_server/, *)
(* is the same code without `mode`, `restrict_to_store` and the            *)
(* try/except around the commits; its deletion of the instances of a file  *)
(* is modelled beside the later one (legacy_delete_instances).             *)
(*                                                                         *)
(* Every request runs to completion inside one action (the server is       *)
(* request-synchronous).  The database session is modelled by computing    *)
(* the pending tables and handing them to Commit, which either installs    *)
(* them or, when the commit raises SQLAlchemyError, rolls back to the      *)
(* committed tables.                                                       *)
(***************************************************************************)
EXTENDS Integers, Sequences, FiniteSets, TLC

(* ------------------------------------------------------------------ *)
(* Bounds and input sets                                              *)
(* ------------------------------------------------------------------ *)

\* The event log never grows beyond MaxEvents rows; a request that would
\* append beyond it is not issued.  Every registration appends an event, so
\* this also bounds the number of FileInstance rows.
MaxEvents == 3

\* Python's None, for the integer-valued optional fields (obsid, store).
None == -1

\* DeletionPolicy enumeration.
DISALLOWED == 0
ALLOWED == 1

\* The Store table, name -> id.  It is not changed by any request here.
StoreTable == ("store1" :> 1) @@ ("store2" :> 2)
StoreNames == DOMAIN StoreTable
Stores == {StoreTable[n] : n \in StoreNames}
StoreName(id) == CHOOSE n \in StoreNames : StoreTable[n] = id

\* What a caller may send as restrict_to_store: nothing (NoStore), the name
\* of a store, or a name Store.get_by_name does not know.
NoStore == "None"
StoreArgs == {NoStore} \cup StoreNames \cup {"nowhere"}

\* Directories of a store a replica may live in.
ParentDirs == {"a"}

\* File names, as the list name.split('.') of their components.
Names == { <<"zen", "2457000", "5", "uv">>,
           <<"zen", "2457000", "5", "xx">>,
           <<"z_n", "2457000", "5", "uv">>,
           <<"zen", "2457000", "5">>,
           <<"zen", "uv">> }

\* Observation ids a registration may carry in its info.
Obsids == {10, 20}

\* Deletion-policy strings a caller may send.
PolicyTexts == {"allowed", "disallowed", "bogus"}

\* Deletion modes a caller may send.
ModeTexts == {"standard", "noop", "bogus"}

\* Values of app.config['obsid_inference_mode'].
InferenceModes == {"none", "hera", "_testing", "bogus"}

(* ------------------------------------------------------------------ *)
(* State                                                              *)
(* ------------------------------------------------------------------ *)

VARIABLES
    config,        \* app.config['obsid_inference_mode']
    files,         \* File table: name -> record
    observations,  \* Observation table: set of obsids
    instances,     \* FileInstance table: set of rows
    events,        \* FileEvent table, in id order
    fs,            \* replicas physically present on the stores
    inflight,      \* requests being served step by step: id -> request
    origin,        \* the tables and replicas as those requests arrived
    manager,       \* an RsyncAsyncTransferManager and the copies it made
    exchange       \* a File record on its way to another server

vars ==
    <<config, files, observations, instances, events, fs, inflight, origin,
      manager, exchange>>

\* No transfer manager has been made; no record is being exchanged.
NoManager == <<>>
NoExchange == <<>>

(* ------------------------------------------------------------------ *)
(* Pure helpers                                                       *)
(* ------------------------------------------------------------------ *)

\* Fault variant of parse_safe: an unrecognised text is read as ALLOWED.
parse_unsafe(text) ==
    IF text = "disallowed" THEN DISALLOWED ELSE ALLOWED

\* DeletionPolicy.parse_safe
parse_safe(text) ==
    IF text = "disallowed" THEN DISALLOWED
    ELSE IF text = "allowed" THEN ALLOWED
    ELSE DISALLOWED

\* The primary key of a FileInstance row.
Key(r) == [store |-> r.store, parent_dirs |-> r.parent_dirs, name |-> r.name]

\* FileInstance.__init__: the row a new replica gets.
FileInstance(store_id, parent_dirs, name, deletion_policy) ==
    [store |-> store_id, parent_dirs |-> parent_dirs, name |-> name,
     deletion_policy |-> deletion_policy]

\* File.instances: the rows of one file.  The relationship has no
\* order_by, so the order in which a loop sees them is the database's
\* choice: Enumerations is every order it may pick.
InstancesOf(tbl, name) == {r \in tbl : r.name = name}
Enumerations(rows) ==
    {q \in [1..Cardinality(rows) -> rows] :
        \A i, j \in 1..Cardinality(rows) : q[i] = q[j] => i = j}

\* FileEvent.__init__ via File.make_generic_event: an event not yet added
\* to the session; its id is assigned when it is flushed.
make_generic_event(name, type, payload) ==
    [id |-> None, name |-> name, type |-> type, payload |-> payload]

\* File.make_instance_creation_event
make_instance_creation_event(name, inst) ==
    make_generic_event(name, "create_instance",
        [store_name |-> StoreName(inst.store), parent_dirs |-> inst.parent_dirs])

\* File.make_instance_deletion_event
make_instance_deletion_event(name, inst) ==
    make_generic_event(name, "delete_instance",
        [store_name |-> StoreName(inst.store), parent_dirs |-> inst.parent_dirs])

\* Fault variant of AddEvents: the first added event reuses the id of the
\* last committed one and takes its place.
AddEventsReusingId(log, added) ==
    IF log = <<>> \/ added = <<>>
    THEN log \o [i \in 1..Len(added) |-> [added[i] EXCEPT !.id = Len(log) + i]]
    ELSE SubSeq(log, 1, Len(log) - 1)
            \o [i \in 1..Len(added) |-> [added[i] EXCEPT !.id = Len(log) + i - 1]]

\* db.session.add of events followed by the flush: the log extended by the
\* added events, each given the next id.
AddEvents(log, added) ==
    log \o [i \in 1..Len(added) |-> [added[i] EXCEPT !.id = Len(log) + i]]

\* Fault variant of Commit: the except clause does not roll back, and the
\* pending changes reach the database with the next flush.
CommitWithoutRollback(ok, committed, pending) == pending

\* db.session.commit() inside try/except SQLAlchemyError: the pending
\* table is installed when the commit succeeds; db.session.rollback()
\* restores the committed one when it raises.
Commit(ok, committed, pending) == IF ok THEN pending ELSE committed

\* Fault variant of AfterCommit: the except clause rolls back and logs
\* but does not raise.
AfterCommitSwallowed(commit_ok) ==
    [status |-> "ok",
     commit |-> IF commit_ok THEN "ok" ELSE "rolled_back"]

\* How a handler ends after that try/except: it goes on ("ok") when the
\* commit succeeded and raises ServerError from the except clause when it
\* did not; `commit` records what became of the commit.
AfterCommit(commit_ok) ==
    [status |-> IF commit_ok THEN "ok" ELSE "ServerError",
     commit |-> IF commit_ok THEN "ok" ELSE "rolled_back"]

(* ------------------------------------------------------------------ *)
(* File.delete_instances                                              *)
(* ------------------------------------------------------------------ *)

\* The counters and the session as the loop starts.
LoopStart ==
    [n_deleted |-> 0, n_kept |-> 0, n_error |-> 0,
     called |-> {},      \* replicas store._delete was invoked on
     unlinked |-> {},    \* replicas store._delete removed
     deleted |-> {},     \* rows handed to db.session.delete
     added |-> <<>>]     \* events handed to db.session.add

\* Fault variant of PolicyKeeps: the interlock test is gone.
PolicyKeepsNothing(inst) == FALSE

\* The interlock test at the head of the loop body: TRUE when the instance
\* may not be deleted under its policy.
PolicyKeeps(inst) == inst.deletion_policy /= ALLOWED

\* Fault variant of StoreKeeps: the restrict_to_store test is gone.
StoreKeepsNothing(inst, rts) == FALSE

\* The restrict_to_store test: TRUE when the instance is on another store
\* than the one the call is restricted to.
StoreKeeps(inst, rts) == rts /= None /\ inst.store /= rts

\* Fault variant of StoreDelete: store._delete is called in noop mode too.
StoreDeleteInAnyMode(noop, inst, bad) ==
    IF inst.store \in bad THEN "raised" ELSE "removed"

\* The try block: in noop mode store._delete is not called; otherwise it
\* raises on a store in `bad` (a backend that cannot be reached) and
\* removes the replica on the others.
StoreDelete(noop, inst, bad) ==
    IF noop THEN "not_called"
    ELSE IF inst.store \in bad THEN "raised" ELSE "removed"

\* Fault variant of OnKept: a kept instance is counted as deleted.
OnKeptCountedAsDeleted(acc) == [acc EXCEPT !.n_deleted = @ + 1]

\* n_kept += 1; continue
OnKept(acc) == [acc EXCEPT !.n_kept = @ + 1]

\* Fault variant of OnError: the except clause counts the error and then
\* falls through to the bookkeeping of a successful deletion.
OnErrorFallsThrough(acc, inst) ==
    [acc EXCEPT !.n_error = @ + 1, !.called = @ \cup {Key(inst)},
                !.added = Append(@, make_instance_deletion_event(inst.name, inst)),
                !.deleted = @ \cup {inst}]

\* The except clause: n_error += 1; continue
OnError(acc, inst) ==
    [acc EXCEPT !.n_error = @ + 1, !.called = @ \cup {Key(inst)}]

\* Fault variant of OnDeleted: the event is added but the row is not
\* deleted in the session.
OnDeletedKeepsRow(acc, inst, noop) ==
    IF noop THEN [acc EXCEPT !.n_deleted = @ + 1]
    ELSE [acc EXCEPT
            !.called = @ \cup {Key(inst)},
            !.unlinked = @ \cup {Key(inst)},
            !.added = Append(@, make_instance_deletion_event(inst.name, inst)),
            !.n_deleted = @ + 1]

\* Fault variant of OnDeleted: the noop flag is not consulted.
OnDeletedIgnoringNoop(acc, inst, noop) ==
    [acc EXCEPT
        !.called = @ \cup {Key(inst)},
        !.unlinked = @ \cup {Key(inst)},
        !.added = Append(@, make_instance_deletion_event(inst.name, inst)),
        !.deleted = @ \cup {inst},
        !.n_deleted = @ + 1]

\* After the try block went through: in standard mode the deletion event
\* is added and the row deleted in the session; n_deleted += 1 in both.
OnDeleted(acc, inst, noop) ==
    IF noop THEN [acc EXCEPT !.n_deleted = @ + 1]
    ELSE [acc EXCEPT
            !.called = @ \cup {Key(inst)},
            !.unlinked = @ \cup {Key(inst)},
            !.added = Append(@, make_instance_deletion_event(inst.name, inst)),
            !.deleted = @ \cup {inst},
            !.n_deleted = @ + 1]

\* `for inst in self.instances` over the rows still to visit.
RECURSIVE DeleteLoop(_, _, _, _, _)
DeleteLoop(insts, noop, rts, bad, acc) ==
    IF insts = <<>> THEN acc
    ELSE LET inst == Head(insts)
             next == IF PolicyKeeps(inst) THEN OnKept(acc)
                     ELSE IF StoreKeeps(inst, rts) THEN OnKept(acc)
                     ELSE IF StoreDelete(noop, inst, bad) = "raised"
                          THEN OnError(acc, inst)
                          ELSE OnDeleted(acc, inst, noop)
         IN  DeleteLoop(Tail(insts), noop, rts, bad, next)

\* db.session.delete of the given rows followed by the flush.
DeleteRows(tbl, rows) == tbl \ rows

\* The counters a call reports; NoResult stands for a call that raised.
NoResult == [n_deleted |-> 0, n_kept |-> 0, n_error |-> 0]
Counts(acc) ==
    [n_deleted |-> acc.n_deleted, n_kept |-> acc.n_kept, n_error |-> acc.n_error]

\* `if not noop: try: db.session.commit() except SQLAlchemyError: ...`
\* after the loop left the session in `acc`.
FinishDelete(tbl, log, phys, acc, noop, commit_ok) ==
    IF noop
    THEN [status |-> "ok", result |-> Counts(acc),
          instances |-> tbl, events |-> log, fs |-> phys \ acc.unlinked,
          called |-> acc.called, unlinked |-> acc.unlinked, commit |-> "none"]
    ELSE [status |-> AfterCommit(commit_ok).status,
          result |-> IF AfterCommit(commit_ok).status = "ok"
                     THEN Counts(acc) ELSE NoResult,
          instances |-> Commit(commit_ok, tbl, DeleteRows(tbl, acc.deleted)),
          events |-> Commit(commit_ok, log, AddEvents(log, acc.added)),
          fs |-> phys \ acc.unlinked,
          called |-> acc.called, unlinked |-> acc.unlinked,
          commit |-> AfterCommit(commit_ok).commit]

\* What a call leaves when it raises before touching anything.
Raised(tbl, log, phys) ==
    [status |-> "ServerError", result |-> NoResult,
     instances |-> tbl, events |-> log, fs |-> phys,
     called |-> {}, unlinked |-> {}, commit |-> "none"]

\* File.delete_instances on a file whose instances the loop sees in the
\* order `insts`, from the committed tables `tbl`, `log` and the replicas
\* `phys`.  rts is a store id or None.  Returns the outcome of the call
\* and the tables and replicas after it.
delete_instances(tbl, log, phys, insts, mode, rts, bad, commit_ok) ==
    IF mode \notin {"standard", "noop"}
    THEN Raised(tbl, log, phys)
    ELSE FinishDelete(tbl, log, phys,
                      DeleteLoop(insts, mode = "noop", rts, bad, LoopStart),
                      mode = "noop", commit_ok)

\* File.delete_instances of the earlier module
\* (src/server/librarian_server/file.py): the same loop without `mode` and
\* `restrict_to_store`, followed by a bare db.session.commit().  When the
\* commit raises, the SQLAlchemyError leaves the call as it is: nothing
\* rolls the session back in the handler and no ServerError is made of it;
\* the pending changes are not in the committed tables.
legacy_delete_instances(tbl, log, phys, insts, bad, commit_ok) ==
    [delete_instances(tbl, log, phys, insts, "standard", None, bad, TRUE)
        EXCEPT !.status = IF commit_ok THEN "ok" ELSE "SQLAlchemyError",
               !.result = IF commit_ok THEN @ ELSE NoResult,
               !.instances = Commit(commit_ok, tbl, @),
               !.events = Commit(commit_ok, log, @),
               !.commit = IF commit_ok THEN "ok" ELSE "raised"]

(* ------------------------------------------------------------------ *)
(* infer_file_obsid, File.__init__, File.get_inferring_info           *)
(* ------------------------------------------------------------------ *)

\* Decimal value of the name components that float() accepts.
Numeric == ("2457000" :> 2457000) @@ ("5" :> 5)

\* int(floor(Time(jd, format='jd', scale='utc').gps)) for the Julian date
\* whose integer part is jd_int and whose fraction is tenths/10: seconds
\* since the GPS epoch (JD 2444244.5), plus the 16 leap seconds in force.
JdToGps(jd_int, tenths) ==
    (jd_int - 2444245) * 86400 + 43200 + tenths * 8640 + 16

\* Components with a '_', which LIKE reads as "any one character", and the
\* components of the names above each of them matches.
Underscored == ("z_n" :> {"zen", "z_n"})

\* One component of a name against one component of a LIKE pattern.
LikeComponent(c, pat) ==
    \/ c = pat
    \/ pat \in DOMAIN Underscored /\ c \in Underscored[pat]

\* File.name.like(prefix + '.%'): the name has three components that
\* match those of the prefix, and at least one more.
Like(name, prefix) ==
    /\ Len(name) >= 4
    /\ \A i \in 1..3 : LikeComponent(name[i], prefix[i])

\* query(File.obsid).filter(File.name.like(prefix + '.%'))
\*    .group_by(File.obsid): one row per obsid among the matching files,
\* the NULL of files without an observation being one of them.
HeraQuery(tbl, prefix) ==
    {tbl[n].obsid : n \in {m \in DOMAIN tbl : Like(m, prefix)}}

\* Fault variant of FromCandidates: the first row is taken whatever the
\* number of rows.
FirstCandidate(obsids) ==
    IF obsids = <<>>
    THEN [ok |-> FALSE, obsid |-> None, error |-> "ServerError"]
    ELSE [ok |-> TRUE, obsid |-> obsids[1], error |-> "none"]

\* `if len(obsids) != 1: raise ServerError(...)` and `return obsids[0]`
\* on the list of the rows of the query.
FromCandidates(obsids) ==
    IF Len(obsids) /= 1
    THEN [ok |-> FALSE, obsid |-> None, error |-> "ServerError"]
    ELSE [ok |-> TRUE, obsid |-> obsids[1], error |-> "none"]

\* Fault variant of NameLooksWeird: three components are enough.
NameLooksWeirdBelowThree(name) == Len(name) < 3

\* `bits = name.split('.')` and `len(bits) < 4`
NameLooksWeird(name) == Len(name) < 4

\* infer_file_obsid: [ok, obsid, error]; ok = FALSE when it raises.  The
\* rows of the query come in an order of the database's choosing; one of
\* them is taken here, and FromCandidates gives the same for each.
infer_file_obsid(tbl, mode, name) ==
    LET fail(e) == [ok |-> FALSE, obsid |-> None, error |-> e]
    IN  IF mode = "none" THEN fail("ServerError")
        ELSE IF mode = "hera" THEN
            IF NameLooksWeird(name) THEN fail("ServerError")
            ELSE FromCandidates(
                    CHOOSE q \in Enumerations(HeraQuery(tbl, SubSeq(name, 1, 3))) :
                       TRUE)
        ELSE IF mode = "_testing" THEN
            IF NameLooksWeird(name) THEN fail("ServerError")
            ELSE IF name[2] \notin DOMAIN Numeric \/ name[3] \notin DOMAIN Numeric
                 THEN fail("ValueError")
                 ELSE [ok |-> TRUE,
                       obsid |-> JdToGps(Numeric[name[2]], Numeric[name[3]]),
                       error |-> "none"]
        ELSE fail("ServerError")

\* Checksums a caller may send, and the ones that are 32 hex digits.
Md5Texts == {"d41d8cd98f00b204e9800998ecf8427e",
             "D41D8CD98F00B204E9800998ECF8427E", "xyz"}

\* hera_librarian.utils.normalize_and_validate_md5: lower-cases the text
\* and raises unless it is 32 hex digits.
normalize_and_validate_md5(md5) ==
    IF md5 \in {"d41d8cd98f00b204e9800998ecf8427e",
                "D41D8CD98F00B204E9800998ECF8427E"}
    THEN [ok |-> TRUE, md5 |-> "d41d8cd98f00b204e9800998ecf8427e"]
    ELSE [ok |-> FALSE, md5 |-> md5]

\* Name components that contain a '/'.
SlashComponents == {"sub/zen"}
HasSlash(name) == \E i \in 1..Len(name) : name[i] \in SlashComponents

\* Fault variant of File: _validate is not run, only the digest is checked.
FileUnvalidated(name, type, obsid, source, size, md5) ==
    LET n == normalize_and_validate_md5(md5)
    IN  [ok |-> n.ok,
         file |-> [name |-> name, type |-> type, obsid |-> obsid,
                   source |-> source, size |-> size, md5 |-> n.md5]]

\* File.__init__ followed by File._validate: [ok, file]; ok = FALSE when
\* it raises ValueError.
File(name, type, obsid, source, size, md5) ==
    LET n == normalize_and_validate_md5(md5)
    IN  [ok |-> n.ok /\ ~HasSlash(name) /\ size >= 0,
         file |-> [name |-> name, type |-> type, obsid |-> obsid,
                   source |-> source, size |-> size, md5 |-> n.md5]]

\* What store.get_info_for_path or the caller may report about a file.
Infos == [size : {0 - 1, 1024}, md5 : Md5Texts, type : {"uv"},
          obsid : Obsids \cup {None}]

\* File.get_inferring_info on a name with no File record yet:
\* [status, obsid, file]; status is "ok" when the File is to be added.
\* mc_invalid is the answer of MC.is_file_record_invalid.
NewFileFor(tbl, mode, name, source_name, info, null_obsid, mc_invalid) ==
    LET inferred == infer_file_obsid(tbl, mode, name)
        obsid == IF null_obsid \/ info.obsid /= None THEN info.obsid
                 ELSE inferred.obsid
        fobj == File(name, info.type, obsid, source_name, info.size, info.md5)
        status ==
            IF null_obsid /\ info.obsid /= None THEN "ServerError"
            ELSE IF ~null_obsid /\ info.obsid = None /\ ~inferred.ok
                 THEN inferred.error
            ELSE IF ~fobj.ok THEN "ValueError"
            ELSE IF mc_invalid THEN "ServerError"
            ELSE "ok"
    IN  [status |-> status, obsid |-> obsid, null_obsid |-> null_obsid,
         file |-> fobj.file]

(* ------------------------------------------------------------------ *)
(* Request handlers, as functions of the committed tables             *)
(* ------------------------------------------------------------------ *)

\* optional_arg(args, str, 'restrict_to_store') and Store.get_by_name:
\* the lookup raises ServerError for an unknown name.
StoreLookupFails(arg) == arg /= NoStore /\ arg \notin StoreNames
StoreIdOf(arg) == IF arg \in StoreNames THEN StoreTable[arg] ELSE None

\* Fault variant of get_inferring_info: a known name is not looked up
\* first, and its record is replaced by one made of the info given.
get_inferring_info_replacing(fl, obs, mode, name, source_name, info, info_raises, null_obsid, mc_invalid, commit_ok) ==
    LET unchanged(status, file) ==
            [status |-> status, files |-> fl, observations |-> obs,
             created |-> FALSE, file |-> file, commit |-> "none"]
        new == NewFileFor(fl, mode, name, source_name, info, null_obsid, mc_invalid)
        pending_obs == IF null_obsid \/ new.obsid = None THEN obs
                       ELSE obs \cup {new.obsid}
    IN  IF info_raises THEN unchanged("ServerError", new.file)
        ELSE IF new.status /= "ok" THEN unchanged(new.status, new.file)
        ELSE [status |-> AfterCommit(commit_ok).status,
              files |-> Commit(commit_ok, fl, (name :> new.file) @@ fl),
              observations |-> Commit(commit_ok, obs, pending_obs),
              created |-> commit_ok, file |-> new.file,
              commit |-> AfterCommit(commit_ok).commit]

\* File.get_inferring_info(store, store_path, source_name, info, null_obsid)
\* for store_path = parent_dirs/name, from the File table `fl` and the
\* Observation table `obs`.  info_raises: info is None and
\* store.get_info_for_path raises.  `created` tells whether a File was
\* added; `file` is the record returned when status is "ok".
get_inferring_info(fl, obs, mode, name, source_name, info, info_raises, null_obsid, mc_invalid, commit_ok) ==
    LET unchanged(status, file) ==
            [status |-> status, files |-> fl, observations |-> obs,
             created |-> FALSE, file |-> file, commit |-> "none"]
        new == NewFileFor(fl, mode, name, source_name, info, null_obsid, mc_invalid)
        pending_obs == IF null_obsid \/ new.obsid = None THEN obs
                       ELSE obs \cup {new.obsid}
    IN  IF name \in DOMAIN fl THEN unchanged("ok", fl[name])
        ELSE IF info_raises THEN unchanged("ServerError", new.file)
        ELSE IF new.status /= "ok" THEN unchanged(new.status, new.file)
        ELSE [status |-> AfterCommit(commit_ok).status,
              files |-> Commit(commit_ok, fl, (name :> new.file) @@ fl),
              observations |-> Commit(commit_ok, obs, pending_obs),
              created |-> commit_ok, file |-> new.file,
              commit |-> AfterCommit(commit_ok).commit]

\* Fault variant of create_file_event: the file is not looked up.
create_file_event_unchecked(fl, log, file_name, type, payload, commit_ok) ==
    [status |-> AfterCommit(commit_ok).status,
     events |-> Commit(commit_ok, log,
         AddEvents(log, <<make_generic_event(file_name, type, payload)>>)),
     commit |-> AfterCommit(commit_ok).commit]

\* create_file_event(file_name, type, payload)
create_file_event(fl, log, file_name, type, payload, commit_ok) ==
    IF file_name \notin DOMAIN fl
    THEN [status |-> "ServerError", events |-> log, commit |-> "none"]
    ELSE [status |-> AfterCommit(commit_ok).status,
          events |-> Commit(commit_ok, log,
              AddEvents(log, <<make_generic_event(file_name, type, payload)>>)),
          commit |-> AfterCommit(commit_ok).commit]

\* Fault variant of FirstMatch: the loop does not break.
AllMatches(insts, rts) ==
    {insts[i] : i \in {j \in DOMAIN insts : rts = None \/ insts[j].store = rts}}

\* Fault variant of FirstMatch: the store filter is not applied.
FirstOfAny(insts, rts) ==
    IF insts = <<>> THEN {} ELSE {Head(insts)}

\* The loop of set_one_file_deletion_policy over the instances in the
\* order `insts`: the set holding the instance it assigns to before its
\* break, or the empty set when it runs to its else clause.
RECURSIVE FirstMatch(_, _)
FirstMatch(insts, rts) ==
    IF insts = <<>> THEN {}
    ELSE IF rts /= None /\ Head(insts).store /= rts
         THEN FirstMatch(Tail(insts), rts)
         ELSE {Head(insts)}

\* The assignment inst.deletion_policy = deletion_policy to the rows
\* `touched`, flushed.
SetPolicy(tbl, touched, deletion_policy) ==
    (tbl \ touched) \cup
        {[r EXCEPT !.deletion_policy = deletion_policy] : r \in touched}

\* Fault variant of PolicyEvents: the change is not recorded.
PolicyEventsUnrecorded(file_name, touched, deletion_policy) == <<>>

\* Fault variant of PolicyEvents: the event is built before the assignment
\* and records the policy the instance had.
PolicyEventsRecordingOld(file_name, touched, deletion_policy) ==
    LET inst == CHOOSE r \in touched : TRUE
    IN  <<make_generic_event(file_name, "instance_deletion_policy_changed",
             [store_name |-> StoreName(inst.store),
              parent_dirs |-> inst.parent_dirs,
              new_policy |-> 1 - deletion_policy])>>

\* The event set_one_file_deletion_policy adds for the instance its loop
\* left in `inst`.
PolicyEvents(file_name, touched, deletion_policy) ==
    LET inst == CHOOSE r \in touched : TRUE
    IN  <<make_generic_event(file_name, "instance_deletion_policy_changed",
             [store_name |-> StoreName(inst.store),
              parent_dirs |-> inst.parent_dirs,
              new_policy |-> deletion_policy])>>

\* set_one_file_deletion_policy(file_name, deletion_policy, restrict_to_store);
\* `insts` is the order in which its loop sees file.instances.
set_one_file_deletion_policy(fl, tbl, log, file_name, text, rts_arg, insts, commit_ok) ==
    LET raised == [status |-> "ServerError", instances |-> tbl, events |-> log,
                   touched |-> {}, commit |-> "none"]
        deletion_policy == parse_safe(text)
        touched == FirstMatch(insts, StoreIdOf(rts_arg))
    IN  IF StoreLookupFails(rts_arg) THEN raised
        ELSE IF file_name \notin DOMAIN fl THEN raised
        ELSE IF touched = {} THEN raised
        ELSE [status |-> AfterCommit(commit_ok).status,
              instances |-> Commit(commit_ok, tbl,
                                   SetPolicy(tbl, touched, deletion_policy)),
              events |-> Commit(commit_ok, log,
                  AddEvents(log, PolicyEvents(file_name, touched, deletion_policy))),
              touched |-> touched,
              commit |-> AfterCommit(commit_ok).commit]

\* delete_file_instances(file_name, mode, restrict_to_store)
delete_file_instances(fl, tbl, log, phys, file_name, mode, rts_arg, insts, bad, commit_ok) ==
    IF StoreLookupFails(rts_arg) THEN Raised(tbl, log, phys)
    ELSE IF file_name \notin DOMAIN fl THEN Raised(tbl, log, phys)
    ELSE delete_instances(tbl, log, phys, insts, mode, StoreIdOf(rts_arg), bad,
                          commit_ok)

\* delete_file_instances(file_name) of the earlier module.
legacy_delete_file_instances(fl, tbl, log, phys, file_name, insts, bad, commit_ok) ==
    IF file_name \notin DOMAIN fl
    THEN Raised(tbl, log, phys)
    ELSE legacy_delete_instances(tbl, log, phys, insts, bad, commit_ok)

\* What a batch has done so far, `cur`, extended by the outcome `out` of
\* one more call of delete_instances.
AfterCall(cur, out) ==
    [cur EXCEPT !.instances = out.instances, !.events = out.events,
                !.fs = out.fs, !.called = @ \cup out.called,
                !.unlinked = @ \cup out.unlinked, !.commit = out.commit]

\* The loop of delete_file_instances_matching_query over the files the
\* search yielded, from the i-th on.  ords[name] is the order in which
\* delete_instances sees the instances of that file; the commit of the
\* fail_at-th file raises (none when fail_at = 0).  A call that raises
\* ends the loop and the request, and no stats are returned.
RECURSIVE QueryLoop(_, _, _, _, _, _, _, _, _)
RECURSIVE QueryStep(_, _, _, _, _, _, _, _, _, _)
QueryLoop(matched, ords, mode, rts, bad, fail_at, i, stats, cur) ==
    IF i > Len(matched)
    THEN [cur EXCEPT !.status = "ok", !.stats = stats]
    ELSE QueryStep(matched, ords, mode, rts, bad, fail_at, i, stats, cur,
                   delete_instances(cur.instances, cur.events, cur.fs,
                                    ords[matched[i]], mode, rts, bad,
                                    i /= fail_at))

\* Fault variant of QueryStep: a call that raised is entered in stats as
\* one error and the loop goes on.
QueryStepCountingFailure(matched, ords, mode, rts, bad, fail_at, i, stats, cur, out) ==
    IF out.status /= "ok"
    THEN QueryLoop(matched, ords, mode, rts, bad, fail_at, i + 1,
                   (matched[i] :> [n_deleted |-> 0, n_kept |-> 0, n_error |-> 1])
                      @@ stats,
                   AfterCall(cur, out))
    ELSE QueryLoop(matched, ords, mode, rts, bad, fail_at, i + 1,
                   (matched[i] :> out.result) @@ stats, AfterCall(cur, out))

\* stats[f.name] = f.delete_instances(...) for the i-th file, whose call
\* ended as `out`.
QueryStep(matched, ords, mode, rts, bad, fail_at, i, stats, cur, out) ==
    IF out.status /= "ok"
    THEN [AfterCall(cur, out) EXCEPT !.status = out.status, !.stats = <<>>]
    ELSE QueryLoop(matched, ords, mode, rts, bad, fail_at, i + 1,
                   (matched[i] :> out.result) @@ stats, AfterCall(cur, out))

\* delete_file_instances_matching_query(query, mode, restrict_to_store);
\* `matched` is the sequence of file names compile_search yields.
delete_file_instances_matching_query(tbl, log, phys, matched, ords, mode, rts_arg, bad, fail_at) ==
    LET start == [status |-> "ok", stats |-> <<>>, instances |-> tbl,
                  events |-> log, fs |-> phys, called |-> {}, unlinked |-> {},
                  commit |-> "none"]
    IN  IF StoreLookupFails(rts_arg)
        THEN [start EXCEPT !.status = "ServerError"]
        ELSE QueryLoop(matched, ords, mode, StoreIdOf(rts_arg), bad, fail_at,
                       1, <<>>, start)

(* ------------------------------------------------------------------ *)
(* The requests as steps of the server                                *)
(* ------------------------------------------------------------------ *)

Init ==
    /\ config = "none"
    /\ files = <<>>
    /\ observations = {}
    /\ instances = {}
    /\ events = <<>>
    /\ fs = {}
    /\ inflight = <<>>
    /\ origin = [instances |-> {}, events |-> <<>>, fs |-> {}]
    /\ manager = NoManager
    /\ exchange = NoExchange

\* A call of File.get_inferring_info.
Ingest(name, info, info_raises, null_obsid, mc_invalid, commit_ok) ==
    \E out \in {get_inferring_info(files, observations, config, name, "source",
                     info, info_raises, null_obsid, mc_invalid, commit_ok)} :
       /\ files' = out.files
       /\ observations' = out.observations
       /\ UNCHANGED <<config, instances, events, fs, inflight, origin, manager, exchange>>

\* Registration of a replica of a known file found on a store: the
\* FileInstance row and its create_instance event are added and committed.
Register(store, parent_dirs, name, deletion_policy) ==
    LET inst == FileInstance(store, parent_dirs, name, deletion_policy)
    IN  /\ name \in DOMAIN files
        /\ \A r \in instances : Key(r) /= Key(inst)
        /\ Len(events) < MaxEvents
        /\ instances' = instances \cup {inst}
        /\ events' = AddEvents(events, <<make_instance_creation_event(name, inst)>>)
        /\ fs' = fs \cup {Key(inst)}
        /\ UNCHANGED <<config, files, observations, inflight, origin, manager, exchange>>

\* A request to /api/create_file_event.
CreateEvent(file_name, type, payload, commit_ok) ==
    \E out \in {create_file_event(files, events, file_name, type, payload,
                                   commit_ok)} :
       /\ Len(out.events) <= MaxEvents
       /\ events' = out.events
       /\ UNCHANGED <<config, files, observations, instances, fs, inflight, origin, manager, exchange>>

\* A request to /api/set_one_file_deletion_policy.
SetOnePolicy(file_name, text, rts_arg, insts, commit_ok) ==
    \E out \in {set_one_file_deletion_policy(files, instances, events, file_name,
                     text, rts_arg, insts, commit_ok)} :
       /\ Len(out.events) <= MaxEvents
       /\ instances' = out.instances
       /\ events' = out.events
       /\ UNCHANGED <<config, files, observations, fs, inflight, origin, manager, exchange>>

\* Fault variant of DeleteFileInstances: a file left without instances is
\* deleted with them.
DeleteFileInstancesCascading(file_name, mode, rts_arg, insts, bad, commit_ok) ==
    \E out \in {delete_file_instances(files, instances, events, fs, file_name,
                     mode, rts_arg, insts, bad, commit_ok)} :
       /\ Len(out.events) <= MaxEvents
       /\ instances' = out.instances
       /\ events' = out.events
       /\ fs' = out.fs
       /\ files' = [n \in {m \in DOMAIN files :
                              m /= file_name
                              \/ InstancesOf(out.instances, m) /= {}
                              \/ out.instances = instances} |-> files[n]]
       /\ UNCHANGED <<config, observations, inflight, origin, manager, exchange>>

\* A request to /api/delete_file_instances.
DeleteFileInstances(file_name, mode, rts_arg, insts, bad, commit_ok) ==
    \E out \in {delete_file_instances(files, instances, events, fs, file_name,
                     mode, rts_arg, insts, bad, commit_ok)} :
       /\ Len(out.events) <= MaxEvents
       /\ instances' = out.instances
       /\ events' = out.events
       /\ fs' = out.fs
       /\ UNCHANGED <<config, files, observations, inflight, origin, manager, exchange>>

\* A request to /api/delete_file_instances of the earlier module.
LegacyDeleteFileInstances(file_name, insts, bad, commit_ok) ==
    \E out \in {legacy_delete_file_instances(files, instances, events, fs,
                     file_name, insts, bad, commit_ok)} :
       /\ Len(out.events) <= MaxEvents
       /\ instances' = out.instances
       /\ events' = out.events
       /\ fs' = out.fs
       /\ UNCHANGED <<config, files, observations, inflight, origin, manager, exchange>>

\* A request to /api/delete_file_instances_matching_query.
DeleteMatchingQuery(matched, ords, mode, rts_arg, bad, fail_at) ==
    \E out \in {delete_file_instances_matching_query(instances, events, fs,
                     matched, ords, mode, rts_arg, bad, fail_at)} :
       /\ Len(out.events) <= MaxEvents
       /\ instances' = out.instances
       /\ events' = out.events
       /\ fs' = out.fs
       /\ UNCHANGED <<config, files, observations, inflight, origin, manager, exchange>>

(* ------------------------------------------------------------------ *)
(* What the callers send and what the environment answers             *)
(* ------------------------------------------------------------------ *)

\* The names requests are made about.
CatalogNames == { <<"zen", "2457000", "5", "uv">>, <<"zen", "uv">> }

\* The infos an ingest is given: a good one, one with a negative size and
\* one without an obsid.
IngestInfos ==
    { [size |-> 1024, md5 |-> "D41D8CD98F00B204E9800998ECF8427E",
       type |-> "uv", obsid |-> 10],
      [size |-> 0 - 1, md5 |-> "d41d8cd98f00b204e9800998ecf8427e",
       type |-> "uv", obsid |-> 10],
      [size |-> 1024, md5 |-> "d41d8cd98f00b204e9800998ecf8427e",
       type |-> "uv", obsid |-> None] }

\* What goes wrong outside the handler during an ingest, at most one thing
\* per request.
Externals == {"ok", "info_raises", "mc_invalid", "commit_fails"}

EventTypeArgs == {"note"}
PayloadArgs == {[note |-> "x"]}
PolicyArgs == {DISALLOWED, ALLOWED}

\* A deletion request consults the environment (the stores' backends and
\* the database commit) only in standard mode and once its store lookup
\* went through.
Consults(mode, rts_arg) == mode = "standard" /\ ~StoreLookupFails(rts_arg)

\* The sets of stores whose backend cannot be reached during a deletion
\* request about the files `names`, among the stores the request can
\* contact: those holding a replica of these files that may be deleted.
BadStoreSets(names, mode, rts_arg) ==
    IF Consults(mode, rts_arg)
    THEN SUBSET {r.store : r \in {x \in instances : /\ x.name \in names
                                                    /\ x.deletion_policy = ALLOWED}}
    ELSE {{}}

\* Whether the commit of a deletion request goes through.
CommitResults(file_name, mode, rts_arg) ==
    IF Consults(mode, rts_arg) /\ file_name \in DOMAIN files THEN BOOLEAN
    ELSE {TRUE}

\* The results a search may yield: the known files that match, in the
\* order the query returns them.
SearchResults ==
    {q \in UNION {[1..n -> DOMAIN files] : n \in 0..Cardinality(DOMAIN files)} :
        \A i, j \in DOMAIN q : q[i] = q[j] => i = j}

\* The file names in a search result.
Range(q) == {q[i] : i \in DOMAIN q}

\* For each of the files `names`, an order in which its instances are
\* enumerated.
InstanceOrders(names) ==
    {f \in [names -> UNION {Enumerations(InstancesOf(instances, n)) : n \in names}] :
        \A n \in names : f[n] \in Enumerations(InstancesOf(instances, n))}

\* Which of the commits of a batch raises: none (0) or that of the i-th file.
FailPoints(matched, mode, rts_arg) ==
    IF Consults(mode, rts_arg) THEN 0..Len(matched) ELSE {0}

IngestRequest ==
    \E name \in CatalogNames, info \in IngestInfos, ext \in Externals :
       Ingest(name, info, ext = "info_raises", FALSE, ext = "mc_invalid",
              ext /= "commit_fails")

RegisterRequest ==
    \E store \in Stores, parent_dirs \in ParentDirs, name \in CatalogNames,
       deletion_policy \in PolicyArgs :
       Register(store, parent_dirs, name, deletion_policy)

CreateEventRequest ==
    \E file_name \in CatalogNames, type \in EventTypeArgs,
       payload \in PayloadArgs, commit_ok \in BOOLEAN :
       CreateEvent(file_name, type, payload, commit_ok)

SetOnePolicyRequest ==
    \E file_name \in CatalogNames, text \in PolicyTexts, rts_arg \in StoreArgs,
       commit_ok \in BOOLEAN :
       \E insts \in Enumerations(InstancesOf(instances, file_name)) :
          SetOnePolicy(file_name, text, rts_arg, insts, commit_ok)

DeleteRequest ==
    \E file_name \in CatalogNames, mode \in ModeTexts, rts_arg \in StoreArgs :
       \E insts \in Enumerations(InstancesOf(instances, file_name)),
          bad \in BadStoreSets({file_name}, mode, rts_arg),
          commit_ok \in CommitResults(file_name, mode, rts_arg) :
          DeleteFileInstances(file_name, mode, rts_arg, insts, bad, commit_ok)

LegacyDeleteRequest ==
    \E file_name \in CatalogNames :
       \E insts \in Enumerations(InstancesOf(instances, file_name)),
          bad \in BadStoreSets({file_name}, "standard", NoStore),
          commit_ok \in CommitResults(file_name, "standard", NoStore) :
          LegacyDeleteFileInstances(file_name, insts, bad, commit_ok)

DeleteQueryRequest ==
    \E matched \in SearchResults :
       \E ords \in InstanceOrders(Range(matched)), mode \in ModeTexts,
          rts_arg \in StoreArgs :
          \E bad \in BadStoreSets(Range(matched), mode, rts_arg),
             fail_at \in FailPoints(matched, mode, rts_arg) :
             DeleteMatchingQuery(matched, ords, mode, rts_arg, bad, fail_at)

\* The requests about one file at a time.
SingleFileNext ==
    \/ IngestRequest
    \/ RegisterRequest
    \/ CreateEventRequest
    \/ SetOnePolicyRequest
    \/ DeleteRequest
    \/ LegacyDeleteRequest

\* Every request.
Next ==
    \/ SingleFileNext
    \/ DeleteQueryRequest

\* The infos of an ingest that may need its obsid inferred.
InferenceInfos ==
    {[size |-> 1024, md5 |-> "d41d8cd98f00b204e9800998ecf8427e",
      type |-> "uv", obsid |-> o] : o \in Obsids \cup {None}}

\* An ingest under any inference mode, with or without an obsid, with or
\* without the null_obsid flag.
InferringIngestRequest ==
    \E name \in Names, info \in InferenceInfos, null_obsid \in BOOLEAN,
       commit_ok \in BOOLEAN :
       Ingest(name, info, FALSE, null_obsid, FALSE, commit_ok)

\* A server configured with any obsid_inference_mode, its catalog empty.
InferenceInit ==
    /\ config \in InferenceModes
    /\ files = <<>>
    /\ observations = {}
    /\ instances = {}
    /\ events = <<>>
    /\ fs = {}
    /\ inflight = <<>>
    /\ origin = [instances |-> {}, events |-> <<>>, fs |-> {}]
    /\ manager = NoManager
    /\ exchange = NoExchange

InferenceNext == InferringIngestRequest

\* The server under ingests, in each inference mode.
InferenceSpec == InferenceInit /\ [][InferenceNext]_vars

\* Ingests whose info may be ill-formed: a negative size, a digest in
\* upper case, no obsid.
ValidationRequest ==
    \E name \in Names, info \in IngestInfos \cup InferenceInfos,
       null_obsid \in BOOLEAN, commit_ok \in BOOLEAN :
       Ingest(name, info, FALSE, null_obsid, FALSE, commit_ok)

ValidationNext == ValidationRequest

\* The server under ingests of well-formed and ill-formed infos.
ValidationSpec == InferenceInit /\ [][ValidationNext]_vars

\* create_file_event takes any type and any payload: a caller may send an
\* event that reads like the record of a policy change.
PolicyEventArgs ==
    {[store_name |-> "store1", parent_dirs |-> "a", new_policy |-> ALLOWED]}

PolicyLookalikeRequest ==
    \E file_name \in CatalogNames, payload \in PolicyEventArgs,
       commit_ok \in BOOLEAN :
       CreateEvent(file_name, "instance_deletion_policy_changed", payload,
                   commit_ok)

\* The requests that write policies and events.
PolicyAuditNext ==
    \/ IngestRequest
    \/ RegisterRequest
    \/ CreateEventRequest
    \/ PolicyLookalikeRequest
    \/ SetOnePolicyRequest

\* The server under every request, and under the single-file requests
\* alone (the batch deletion reaches no state these do not reach).
Spec == Init /\ [][Next]_vars
SingleFileSpec == Init /\ [][SingleFileNext]_vars

\* The server under registrations and deletion requests by query.
BatchNext ==
    \/ IngestRequest
    \/ RegisterRequest
    \/ DeleteQueryRequest

BatchSpec == Init /\ [][BatchNext]_vars

\* The server under registrations and deletion requests about one file.
DeletionNext ==
    \/ IngestRequest
    \/ RegisterRequest
    \/ DeleteRequest

DeletionSpec == Init /\ [][DeletionNext]_vars

\* The server under the requests that write policies and events, with
\* callers of create_file_event free to choose the event type.
PolicyAuditSpec == Init /\ [][PolicyAuditNext]_vars

(* ------------------------------------------------------------------ *)
(* Properties                                                         *)
(* ------------------------------------------------------------------ *)

Keys(rows) == {Key(r) : r \in rows}

\* The replica a create_instance, delete_instance or
\* instance_deletion_policy_changed event is about.
EventKey(e) ==
    [store |-> StoreTable[e.payload.store_name],
     parent_dirs |-> e.payload.parent_dirs, name |-> e.name]

\* The events a request added to the committed log.
NewEvents(out) == SubSeq(out.events, Len(events) + 1, Len(out.events))

\* P(call, out) for every, or for some, deletion request about one file
\* that can be made in the current state, with every answer of the
\* environment; `out` is what the request returns and leaves.
EveryDelete(P(_, _)) ==
    \A file_name \in CatalogNames, mode \in ModeTexts, rts_arg \in StoreArgs :
       \A insts \in Enumerations(InstancesOf(instances, file_name)),
          bad \in BadStoreSets({file_name}, mode, rts_arg),
          commit_ok \in CommitResults(file_name, mode, rts_arg) :
          P([file_name |-> file_name, mode |-> mode, rts_arg |-> rts_arg,
             insts |-> insts, bad |-> bad, commit_ok |-> commit_ok,
             legacy |-> FALSE],
            delete_file_instances(files, instances, events, fs, file_name,
                                  mode, rts_arg, insts, bad, commit_ok))

EveryLegacyDelete(P(_, _)) ==
    \A file_name \in CatalogNames :
       \A insts \in Enumerations(InstancesOf(instances, file_name)),
          bad \in BadStoreSets({file_name}, "standard", NoStore),
          commit_ok \in CommitResults(file_name, "standard", NoStore) :
          P([file_name |-> file_name, mode |-> "standard", rts_arg |-> NoStore,
             insts |-> insts, bad |-> bad, commit_ok |-> commit_ok,
             legacy |-> TRUE],
            legacy_delete_file_instances(files, instances, events, fs,
                                         file_name, insts, bad, commit_ok))

SomeDelete(P(_, _)) ==
    LET NotP(call, out) == ~P(call, out) IN ~EveryDelete(NotP)

SomeLegacyDelete(P(_, _)) ==
    LET NotP(call, out) == ~P(call, out) IN ~EveryLegacyDelete(NotP)

\* The instances of the file a call is about.
Concerned(call) == InstancesOf(instances, call.file_name)

\* A standard-mode call that gets as far as the loop.
RunsLoop(call) ==
    /\ call.mode = "standard"
    /\ call.file_name \in DOMAIN files
    /\ ~StoreLookupFails(call.rts_arg)

\* The instances such a call is to delete: those the policy allows to be
\* deleted, on the store the call is restricted to if it is restricted.
Eligible(call) ==
    {r \in Concerned(call) :
        /\ r.deletion_policy = ALLOWED
        /\ call.rts_arg = NoStore \/ r.store = StoreTable[call.rts_arg]}

\* Those of them whose store cannot be reached, and the others.
Failing(call) == {r \in Eligible(call) : r.store \in call.bad}
Deletable(call) == {r \in Eligible(call) : r.store \notin call.bad}

(* ---- C1 ---------------------------------------------------------- *)

\* C1: safety interlock.  In every step, whatever the request, its mode
\* and its store filter, an instance whose deletion_policy is not ALLOWED
\* keeps its replica and keeps its row: the row is still in the table,
\* unchanged or with its policy set to ALLOWED by a policy request.  So no
\* deletion call removes a DISALLOWED instance, and the DISALLOWED
\* instances after a deletion call include all those before it.
C1_InterlockKeepsDisallowed ==
    [][\A r \in instances :
          r.deletion_policy /= ALLOWED =>
             /\ Key(r) \in fs => Key(r) \in fs'
             /\ \/ r \in instances'
                \/ [r EXCEPT !.deletion_policy = ALLOWED] \in instances']_vars

\* A deletion went through on a file (its delete_instance event is in the
\* log) while a DISALLOWED instance of that file, registered before, is
\* still there with its replica.
C1_Witness ==
    \E r \in instances :
       /\ r.deletion_policy = DISALLOWED
       /\ Key(r) \in fs
       /\ \E j \in DOMAIN events :
             /\ events[j].type = "delete_instance"
             /\ events[j].name = r.name
             /\ \E i \in 1..(j - 1) :
                   /\ events[i].type = "create_instance"
                   /\ EventKey(events[i]) = Key(r)

(* ---- C2 ---------------------------------------------------------- *)

\* Rows are removed exactly for the replicas store._delete removed.
RemovedIffUnlinked(call, out) ==
    \A r \in Concerned(call) : (r \notin out.instances) <=> (Key(r) \in out.unlinked)

RemovedIffUnlinkedAlways(call, out) ==
    call.mode = "standard" => RemovedIffUnlinked(call, out)

\* C2 as stated: in standard mode a row is removed if and only if the
\* physical delete of its replica succeeded, whether the call returns
\* normally or raises.
C2_AsStated ==
    EveryDelete(RemovedIffUnlinkedAlways) /\ EveryLegacyDelete(RemovedIffUnlinkedAlways)

RemovalsAreTransactional(call, out) ==
    call.mode = "standard" =>
       /\ out.status = "ok" => RemovedIffUnlinked(call, out)
       /\ out.status /= "ok" => out.instances = instances /\ out.events = events
       /\ out.fs = fs \ out.unlinked
       /\ out.instances \subseteq instances
       /\ Len(NewEvents(out)) = Cardinality(instances \ out.instances)
       /\ \A i \in DOMAIN NewEvents(out) :
             /\ NewEvents(out)[i].type = "delete_instance"
             /\ EventKey(NewEvents(out)[i]) \in Keys(instances \ out.instances)

\* C2, amended: in standard mode, when the call returns normally a row is
\* removed if and only if the physical delete of its replica succeeded;
\* when the call raises no row is removed and no event is committed,
\* though replicas may have been removed; and in both cases the committed
\* removals and the committed delete_instance events correspond one to
\* one (they are committed, or rolled back, together).
C2_RemovalsAreTransactional ==
    EveryDelete(RemovalsAreTransactional) /\ EveryLegacyDelete(RemovalsAreTransactional)

PartlyDeleted(call, out) ==
    /\ RunsLoop(call) /\ out.status = "ok"
    /\ Deletable(call) /= {} /\ Failing(call) /= {}
    /\ Keys(Deletable(call)) = out.unlinked

LostOnRollback(call, out) ==
    /\ RunsLoop(call) /\ out.status /= "ok"
    /\ out.unlinked /= {} /\ out.instances = instances

\* A call that returns normally having removed one replica and its row
\* and kept another whose store failed, and a call whose commit fails
\* after a replica was removed.
C2_Witness == SomeDelete(PartlyDeleted) /\ SomeDelete(LostOnRollback)

(* ---- C3 ---------------------------------------------------------- *)

\* P(call, out) for every noop deletion request that can be made in the
\* current state, whatever stores are unreachable and whether or not a
\* commit would go through.
EveryNoop(P(_, _)) ==
    \A file_name \in CatalogNames, rts_arg \in StoreArgs,
       bad \in SUBSET Stores, commit_ok \in BOOLEAN :
       \A insts \in Enumerations(InstancesOf(instances, file_name)) :
          P([file_name |-> file_name, mode |-> "noop", rts_arg |-> rts_arg,
             insts |-> insts, bad |-> bad, commit_ok |-> commit_ok,
             legacy |-> FALSE],
            delete_file_instances(files, instances, events, fs, file_name,
                                  "noop", rts_arg, insts, bad, commit_ok))

LeavesAllAsItWas(call, out) ==
    /\ out.instances = instances
    /\ out.events = events
    /\ out.fs = fs
    /\ out.called = {}
    /\ out.commit = "none"

\* C3: a deletion in mode 'noop' changes nothing: the Instance rows with
\* their policies and the Event log are the same after the call as before
\* (the call has no access to the File table), store._delete is not invoked
\* on any replica, no replica is removed, and no commit is issued, so that
\* neither an unreachable store nor a failing database shows.
C3_NoopChangesNothing == EveryNoop(LeavesAllAsItWas)

MatchesInNoop(call, out) ==
    /\ out.status = "ok"
    /\ out.result.n_deleted >= 1
    /\ \E r \in Eligible(call) : r.store \in call.bad
    /\ ~call.commit_ok

\* A noop call that reports an instance as deleted, on a store that
\* cannot be reached, while the database would refuse a commit.
C3_Witness ==
    LET NotP(call, out) == ~MatchesInNoop(call, out) IN ~EveryNoop(NotP)

(* ---- C4 ---------------------------------------------------------- *)

ErrorsAreCountedAndSkipped(call, out) ==
    RunsLoop(call) =>
       /\ Failing(call) \subseteq out.instances
       /\ Keys(Failing(call)) \cap out.unlinked = {}
       /\ \A i \in DOMAIN NewEvents(out) :
             EventKey(NewEvents(out)[i]) \notin Keys(Failing(call))
       /\ Keys(Deletable(call)) = out.unlinked
       /\ out.status /= "ok" => ~call.commit_ok
       /\ out.status = "ok" =>
             /\ out.result.n_error = Cardinality(Failing(call))
             /\ out.result.n_deleted = Cardinality(Deletable(call))
             /\ out.result.n_kept =
                   Cardinality(Concerned(call) \ Eligible(call))

\* C4: when store._delete raises for an instance, the error is counted
\* (n_error is the number of such instances), the instance keeps its row
\* and its replica, no delete_instance event is written for it, the loop
\* goes on (every other eligible instance is deleted, wherever it stands
\* in the enumeration, and the three counts add up to the number of
\* instances), and the call does not raise unless its commit fails.
C4_ErrorsAreCountedAndSkipped ==
    EveryDelete(ErrorsAreCountedAndSkipped)
        /\ EveryLegacyDelete(ErrorsAreCountedAndSkipped)

ErrorThenDeletion(call, out) ==
    /\ RunsLoop(call) /\ out.status = "ok"
    /\ Len(call.insts) = 2
    /\ call.insts[1] \in Failing(call)
    /\ call.insts[2] \in Deletable(call)
    /\ out.result = [n_deleted |-> 1, n_kept |-> 0, n_error |-> 1]

\* A call whose loop meets first an instance whose store fails and then
\* one it deletes.
C4_Witness == SomeDelete(ErrorThenDeletion) /\ SomeLegacyDelete(ErrorThenDeletion)

(* ---- C5 ---------------------------------------------------------- *)

\* The commit of a call fails after a replica was removed.
CommitFailsAfterUnlink(call, out) ==
    RunsLoop(call) /\ ~call.commit_ok /\ out.unlinked /= {}

RollsBackAndRaisesServerError(call, out) ==
    CommitFailsAfterUnlink(call, out) =>
       /\ out.status = "ServerError"
       /\ out.commit = "rolled_back"
       /\ out.result = NoResult

CommitFailureIsRaised(call, out) ==
    CommitFailsAfterUnlink(call, out) =>
       /\ out.status /= "ok"
       /\ out.result = NoResult
       /\ out.instances = instances /\ out.events = events
       /\ out.fs = fs \ out.unlinked
       /\ ~call.legacy => out.status = "ServerError" /\ out.commit = "rolled_back"
       /\ call.legacy => out.status = "SQLAlchemyError" /\ out.commit = "raised"

OptInRecordedBefore(j) ==
    \E i \in 1..(j - 1) :
       /\ events[i].type = "instance_deletion_policy_changed"
       /\ EventKey(events[i]) = EventKey(events[j])
       /\ events[i].payload.new_policy = ALLOWED

PolicyChangeRecord(r) ==
    [id |-> Len(events) + 1, name |-> r.name,
     type |-> "instance_deletion_policy_changed",
     payload |-> [store_name |-> StoreName(r.store),
                  parent_dirs |-> r.parent_dirs,
                  new_policy |-> r.deletion_policy]]

C7_FilesAreNeverRemoved ==
    [][\A n \in DOMAIN files : n \in DOMAIN files' /\ files'[n] = files[n]]_vars

\* A file whose only instance has been deleted is still in the table.
C7_Witness ==
    \E n \in DOMAIN files :
       /\ InstancesOf(instances, n) = {}
       /\ \E i, j \in DOMAIN events :
             /\ i < j
             /\ events[i].type = "create_instance" /\ events[i].name = n
             /\ events[j].type = "delete_instance" /\ events[j].name = n

(* ---- C8 ---------------------------------------------------------- *)

\* C8: the event log is append-only: in every step the committed log
\* before it is a prefix of the committed log after it, so no committed
\* event is updated or deleted.
C8_EventsAreAppendOnly ==
    [][/\ Len(events) <= Len(events')
       /\ SubSeq(events', 1, Len(events)) = events]_vars

\* A log to which create_file_event, set_one_file_deletion_policy and
\* a deletion or a registration have each appended.
C8_Witness ==
    \E i, j \in DOMAIN events :
       /\ i < j
       /\ events[i].type = "note"
       /\ events[j].type \in {"instance_deletion_policy_changed", "delete_instance"}
       /\ \A k \in DOMAIN events : events[k].id = k

(* ---- C9, C10 ----------------------------------------------------- *)

\* P(call, out) for every, or for some, set_one_file_deletion_policy
\* request that can be made in the current state.
EverySetPolicy(P(_, _)) ==
    \A file_name \in CatalogNames, text \in PolicyTexts, rts_arg \in StoreArgs,
       commit_ok \in BOOLEAN :
       \A insts \in Enumerations(InstancesOf(instances, file_name)) :
          P([file_name |-> file_name, text |-> text, rts_arg |-> rts_arg,
             insts |-> insts, commit_ok |-> commit_ok],
            set_one_file_deletion_policy(files, instances, events, file_name,
                                         text, rts_arg, insts, commit_ok))

SomeSetPolicy(P(_, _)) ==
    LET NotP(call, out) == ~P(call, out) IN ~EverySetPolicy(NotP)

\* The instance is on the store the call names, if it names one.
OnNamedStore(call, r) ==
    call.rts_arg = NoStore \/ r.store = StoreTable[call.rts_arg]

\* The k-th instance in enumeration order is the first on the named store.
IsFirstOnNamedStore(call, k) ==
    /\ OnNamedStore(call, call.insts[k])
    /\ \A j \in 1..(k - 1) : ~OnNamedStore(call, call.insts[j])

ChangesFirstMatchOnly(call, out) ==
    out.status = "ok" =>
       \E k \in DOMAIN call.insts, p \in PolicyArgs :
          /\ IsFirstOnNamedStore(call, k)
          /\ out.instances =
                (instances \ {call.insts[k]})
                   \cup {[call.insts[k] EXCEPT !.deletion_policy = p]}

\* C9: a successful set_one_file_deletion_policy assigns the policy of
\* exactly one instance of the file, the first in enumeration order that
\* is on the store the call names (the first of all when it names none);
\* every other row of the Instance table is the same after the call.
C9_ChangesFirstMatchOnly == EverySetPolicy(ChangesFirstMatchOnly)

SecondIsChanged(call, out) ==
    /\ out.status = "ok" /\ Len(call.insts) = 2
    /\ IsFirstOnNamedStore(call, 2)
    /\ call.insts[1] \in out.instances
    /\ call.insts[2] \notin out.instances

FirstOfTwoIsChanged(call, out) ==
    /\ out.status = "ok" /\ Len(call.insts) = 2
    /\ call.rts_arg = NoStore
    /\ call.insts[1].deletion_policy = call.insts[2].deletion_policy
    /\ call.insts[1] \notin out.instances
    /\ call.insts[2] \in out.instances

\* A file with two instances: a call that names the store of the second
\* changes the second alone; one that names no store changes the first
\* alone.
C9_Witness == SomeSetPolicy(SecondIsChanged) /\ SomeSetPolicy(FirstOfTwoIsChanged)

\* The store lookup went through and the file is unknown or has no
\* instance on the named store.
NothingToChange(call) ==
    /\ ~StoreLookupFails(call.rts_arg)
    /\ \/ call.file_name \notin DOMAIN files
       \/ \A r \in InstancesOf(instances, call.file_name) : ~OnNamedStore(call, r)

FailsWithoutEffect(call, out) ==
    NothingToChange(call) =>
       /\ out.status = "ServerError"
       /\ out.instances = instances
       /\ out.events = events
       /\ out.commit = "none"

\* C10: set_one_file_deletion_policy raises ServerError when the file is
\* unknown or none of its instances is on the named store, and then no
\* policy is changed, no event is appended and nothing is committed.
C10_FailsWithoutEffect == EverySetPolicy(FailsWithoutEffect)

NoInstanceOnNamedStore(call, out) ==
    /\ NothingToChange(call)
    /\ call.file_name \in DOMAIN files
    /\ InstancesOf(instances, call.file_name) /= {}
    /\ call.text = "allowed"

UnknownFile(call, out) ==
    NothingToChange(call) /\ call.file_name \notin DOMAIN files

\* Some file is known and another is not; a call names a store on which
\* the known file, which has an instance elsewhere, has none.
C10_Witness ==
    SomeSetPolicy(NoInstanceOnNamedStore) /\ SomeSetPolicy(UnknownFile)

(* ---- C11 --------------------------------------------------------- *)

\* The instance_deletion_policy_changed events of the log about the
\* replica of row r, as indices.
PolicyRecordsOf(log, r) ==
    {i \in DOMAIN log :
        /\ log[i].type = "instance_deletion_policy_changed"
        /\ EventKey(log[i]) = Key(r)}

\* The last such event agrees with the policy the row has.
LastRecordAgrees(log, r) ==
    PolicyRecordsOf(log, r) /= {} =>
       \E i \in PolicyRecordsOf(log, r) :
          /\ \A j \in PolicyRecordsOf(log, r) : j <= i
          /\ log[i].payload.new_policy = r.deletion_policy

\* C11 as stated: the committed policy of an instance and the new_policy
\* of the last instance_deletion_policy_changed event about it always
\* agree.
C11_AsStated == \A r \in instances : LastRecordAgrees(events, r)

PolicyAndRecordGoTogether(call, out) ==
    /\ out.status /= "ok" => out.instances = instances /\ out.events = events
    /\ out.status = "ok" =>
          /\ Len(NewEvents(out)) = 1
          /\ out.events = events \o NewEvents(out)
          /\ NewEvents(out)[1].type = "instance_deletion_policy_changed"
          /\ NewEvents(out)[1].name = call.file_name
          /\ NewEvents(out)[1].id = Len(events) + 1
          /\ \E r \in out.instances :
                /\ Key(r) \in Keys(out.touched)
                /\ EventKey(NewEvents(out)[1]) = Key(r)
                /\ NewEvents(out)[1].payload.new_policy = r.deletion_policy
                /\ LastRecordAgrees(out.events, r)

\* C11, amended: every successful set_one_file_deletion_policy appends
\* exactly one instance_deletion_policy_changed event for the file, naming
\* the store and directory of the touched instance and carrying the policy
\* it was given, in the transaction of the policy change: when the call
\* fails neither is committed.  As the call returns, the committed policy
\* of the touched instance and the new_policy of the last such event agree.
C11_PolicyAndRecordGoTogether == EverySetPolicy(PolicyAndRecordGoTogether)

FlipsRecordedPolicy(call, out) ==
    /\ out.status = "ok"
    /\ \E r \in out.touched :
          /\ PolicyRecordsOf(events, r) /= {}
          /\ r.deletion_policy = ALLOWED
    /\ call.text = "disallowed"

\* A successful call that sets to DISALLOWED an instance the log already
\* has a policy record of.
C11_Witness == SomeSetPolicy(FlipsRecordedPolicy)

(* ---- C12 --------------------------------------------------------- *)

\* Texts a request may carry as its deletion policy: the two the parser
\* knows, and others that differ from them in case, in white space or
\* altogether.
PolicyTextsTried ==
    PolicyTexts \cup {"ALLOWED", "Allowed", "allowed ", "", "1", "true"}

ParsesOnlyAllowedAsAllowed ==
    \A text \in PolicyTextsTried :
       parse_safe(text) = IF text = "allowed" THEN ALLOWED ELSE DISALLOWED

OnlyAllowedSetsAllowed(call, out) ==
    call.text /= "allowed" =>
       /\ \A r \in out.instances :
             r.deletion_policy = ALLOWED => r \in instances
       /\ out.status = "ok" =>
             \A r \in out.instances :
                Key(r) \in Keys(out.touched) => r.deletion_policy = DISALLOWED

\* C12: parse_safe maps "allowed" to ALLOWED, "disallowed" to DISALLOWED
\* and every other text to DISALLOWED; a set_one_file_deletion_policy call
\* with a text other than "allowed" makes no instance ALLOWED, and when it
\* succeeds the instance it touched is DISALLOWED.
C12_OnlyAllowedSetsAllowed ==
    /\ ParsesOnlyAllowedAsAllowed
    /\ EverySetPolicy(OnlyAllowedSetsAllowed)

UnknownTextRevokes(call, out) ==
    /\ call.text \notin {"allowed", "disallowed"}
    /\ out.status = "ok"
    /\ \E r \in out.touched : r.deletion_policy = ALLOWED

\* A successful call with an unrecognised text on an ALLOWED instance.
C12_Witness == SomeSetPolicy(UnknownTextRevokes)

(* ---- C13 --------------------------------------------------------- *)

\* The instances of the file the loop keeps: those whose policy is not
\* ALLOWED, and those on another store than the one the call names.
KeptByTheCall(call) ==
    {r \in Concerned(call) :
        \/ r.deletion_policy /= ALLOWED
        \/ call.rts_arg /= NoStore /\ r.store /= StoreTable[call.rts_arg]}

CountsAreExact(call, out) ==
    RunsLoop(call) /\ out.status = "ok" =>
       LET rest == Concerned(call) \ KeptByTheCall(call)
           res == out.result
       IN  /\ res.n_kept = Cardinality(KeptByTheCall(call))
           /\ res.n_deleted = Cardinality({r \in rest : r.store \notin call.bad})
           /\ res.n_error = Cardinality({r \in rest : r.store \in call.bad})
           /\ res.n_deleted = Cardinality(out.unlinked)
           /\ res.n_error = Cardinality(out.called \ out.unlinked)
           /\ res.n_deleted + res.n_kept + res.n_error
                 = Cardinality(Concerned(call))

\* The two cases the description gives, with no store filter and every
\* store reachable.
ExamplesHold(call, out) ==
    LET plain == /\ RunsLoop(call) /\ out.status = "ok"
                 /\ call.rts_arg = NoStore /\ call.bad = {}
        one_allowed ==
            /\ Cardinality(Concerned(call)) = 1
            /\ \A r \in Concerned(call) : r.deletion_policy = ALLOWED
        one_of_each ==
            \E a, d \in Concerned(call) :
               /\ a.deletion_policy = ALLOWED /\ d.deletion_policy = DISALLOWED
               /\ Concerned(call) = {a, d}
    IN  /\ (plain /\ one_allowed) =>
              out.result = [n_deleted |-> 1, n_kept |-> 0, n_error |-> 0]
        /\ (plain /\ one_of_each) =>
              out.result = [n_deleted |-> 1, n_kept |-> 1, n_error |-> 0]

\* C13: the result of delete_instances in mode "standard" has n_kept the
\* number of instances whose policy is not ALLOWED or whose store is not
\* the store of the filter, n_deleted the number of the others whose
\* physical delete succeeded, n_error the number of those whose physical
\* delete raised, and the three add up to the number of instances the file
\* had before the call; one ALLOWED and one DISALLOWED instance give
\* {1, 1, 0}, a single ALLOWED instance gives {1, 0, 0}.
C13_CountsAreExact ==
    EveryDelete(CountsAreExact) /\ EveryDelete(ExamplesHold)

OneDeletedOneKept(call, out) ==
    /\ RunsLoop(call) /\ out.status = "ok"
    /\ call.rts_arg = NoStore
    /\ \E r \in Concerned(call) : r.deletion_policy = DISALLOWED
    /\ out.result = [n_deleted |-> 1, n_kept |-> 1, n_error |-> 0]

OneFailedOneKept(call, out) ==
    /\ RunsLoop(call) /\ out.status = "ok"
    /\ call.rts_arg = NoStore
    /\ out.result = [n_deleted |-> 0, n_kept |-> 1, n_error |-> 1]

AllowedKeptByFilter(call, out) ==
    /\ RunsLoop(call) /\ out.status = "ok"
    /\ call.rts_arg /= NoStore
    /\ \E r \in Concerned(call) : r.deletion_policy = ALLOWED
    /\ out.result = [n_deleted |-> 0, n_kept |-> 2, n_error |-> 0]

\* A file with an ALLOWED and a DISALLOWED instance: a call deletes one and
\* keeps one, a call that cannot reach the store fails on one and keeps
\* one, and a call restricted to the other store keeps both.
C13_Witness ==
    /\ SomeDelete(OneDeletedOneKept)
    /\ SomeDelete(OneFailedOneKept)
    /\ SomeDelete(AllowedKeptByFilter)

(* ---- C14 --------------------------------------------------------- *)

\* P(call, out) for every, or for some, deletion request by query that can
\* be made in the current state, with every answer of the environment.
EveryQueryDelete(P(_, _)) ==
    \A matched \in SearchResults :
       \A ords \in InstanceOrders(Range(matched)), mode \in ModeTexts,
          rts_arg \in StoreArgs :
          \A bad \in BadStoreSets(Range(matched), mode, rts_arg),
             fail_at \in FailPoints(matched, mode, rts_arg) :
             P([matched |-> matched, ords |-> ords, mode |-> mode,
                rts_arg |-> rts_arg, bad |-> bad, fail_at |-> fail_at],
               delete_file_instances_matching_query(instances, events, fs,
                   matched, ords, mode, rts_arg, bad, fail_at))

SomeQueryDelete(P(_, _)) ==
    LET NotP(call, out) == ~P(call, out) IN ~EveryQueryDelete(NotP)

\* What delete_instances does to the i-th file of the batch when called on
\* the catalog as it is, its commit going through or not.
Alone(call, i, commit_ok) ==
    delete_instances(instances, events, fs, call.ords[call.matched[i]],
                     call.mode, StoreIdOf(call.rts_arg), call.bad, commit_ok)

\* The rows and replicas of the files of the batch from the i-th on.
FromOn(tbl, call, i) ==
    {r \in tbl : \E j \in i..Len(call.matched) : r.name = call.matched[j]}

StatsPerFileOrAbort(call, out) ==
    ~StoreLookupFails(call.rts_arg) =>
       /\ out.status = "ok" =>
             /\ call.fail_at = 0
             /\ DOMAIN out.stats = Range(call.matched)
             /\ \A i \in DOMAIN call.matched :
                   /\ Alone(call, i, TRUE).status = "ok"
                   /\ out.stats[call.matched[i]] = Alone(call, i, TRUE).result
             /\ out.unlinked =
                   UNION {Alone(call, i, TRUE).unlinked : i \in DOMAIN call.matched}
             /\ out.instances =
                   {r \in instances : Key(r) \notin out.unlinked}
       /\ call.fail_at /= 0 =>
             /\ out.status = "ServerError"
             /\ out.stats = <<>>
             /\ out.commit = "rolled_back"
             /\ out.unlinked =
                   UNION {Alone(call, i, i /= call.fail_at).unlinked :
                             i \in 1..call.fail_at}
             /\ FromOn(out.instances, call, call.fail_at)
                   = FromOn(instances, call, call.fail_at)

\* C14: delete_file_instances_matching_query runs delete_instances on every
\* file the query yields; when it returns, stats has exactly one entry per
\* matched file name, the result delete_instances gives for that file, and
\* the replicas removed are those the calls removed.  When the commit of
\* one of the files fails the request raises: there are no stats and no
\* count records the failure, the files after it are not visited, and the
\* rows of the failing file stay.
C14_StatsPerFileOrAbort == EveryQueryDelete(StatsPerFileOrAbort)

ReturnsTwoEntries(call, out) ==
    /\ out.status = "ok" /\ call.mode = "standard"
    /\ Len(call.matched) = 2
    /\ \E n \in Range(call.matched) : out.stats[n].n_deleted = 1
    /\ \E n \in Range(call.matched) : out.stats[n].n_error = 1

AbortsOnSecondFile(call, out) ==
    /\ call.fail_at = 2
    /\ out.status = "ServerError"
    /\ Cardinality(out.unlinked) = 2

\* A batch over two files that returns with a deletion in one entry and an
\* error in the other, and a batch that deletes from both files and whose
\* second commit fails.
C14_Witness ==
    SomeQueryDelete(ReturnsTwoEntries) /\ SomeQueryDelete(AbortsOnSecondFile)

(* ------------------------------------------------------------------ *)
(* Requests served at the same time                                   *)
(* ------------------------------------------------------------------ *)

\* The handlers take no lock and read no row FOR UPDATE.  A request reads
\* the rows of its file into its session when it first touches them, works
\* on what it read, and writes when it commits; the steps of two requests
\* can fall in any order.

RequestIds == {"r1", "r2"}

\* A request as it arrives.
Request(kind, file_name, mode, text, rts_arg) ==
    [kind |-> kind, file_name |-> file_name, mode |-> mode, text |-> text,
     rts_arg |-> rts_arg,
     pc |-> "arrived",     \* arrived, loop, commit, done
     seen |-> <<>>,        \* rows of self.instances still to visit
     acc |-> LoopStart,    \* counters and session of delete_instances
     touched |-> {},       \* row set_one_file_deletion_policy assigned to
     status |-> "running", result |-> NoResult, commit |-> "none"]

\* How a request ends when it raises before its loop.
Refused(r) == [r EXCEPT !.pc = "done", !.status = "ServerError"]

\* delete_file_instances up to the head of the loop of delete_instances:
\* the lookups, the mode check and the load of self.instances, which the
\* database returns in the order `seen`.
BeginDelete(id, seen) ==
    /\ id \in DOMAIN inflight
    /\ inflight[id].kind = "delete_instances"
    /\ inflight[id].pc = "arrived"
    /\ LET r == inflight[id]
       IN  inflight' = [inflight EXCEPT ![id] =
              IF \/ StoreLookupFails(r.rts_arg)
                 \/ r.file_name \notin DOMAIN files
                 \/ r.mode \notin {"standard", "noop"}
              THEN Refused(r)
              ELSE [r EXCEPT !.seen = seen,
                             !.pc = IF seen = <<>> THEN "commit" ELSE "loop"]]
    /\ UNCHANGED <<config, files, observations, instances, events, fs, origin, manager, exchange>>

\* One pass of the loop body on the next row the request read: the
\* policy and store tests on that row as it was read, then store._delete,
\* which raises when the store is in `bad`.
VisitInstance(id, bad) ==
    /\ id \in DOMAIN inflight
    /\ inflight[id].pc = "loop"
    /\ LET r == inflight[id]
           acc == DeleteLoop(<<Head(r.seen)>>, r.mode = "noop",
                             StoreIdOf(r.rts_arg), bad, r.acc)
       IN  /\ inflight' = [inflight EXCEPT ![id] =
                 [r EXCEPT !.acc = acc, !.seen = Tail(r.seen),
                           !.pc = IF Tail(r.seen) = <<>> THEN "commit"
                                  ELSE "loop"]]
           /\ fs' = fs \ acc.unlinked
    /\ UNCHANGED <<config, files, observations, instances, events, origin, manager, exchange>>

\* Fault variant of RowsNow: the rows are addressed by file name alone.
RowsOfSameFile(rows) == {x \in instances : \E r \in rows : x.name = r.name}

\* The rows of the committed table with the primary keys of `rows`.
RowsNow(rows) == {x \in instances : \E r \in rows : Key(x) = Key(r)}

\* The commit of delete_instances: the DELETEs go by primary key and the
\* events get their ids now.
CommitDelete(id, commit_ok) ==
    /\ id \in DOMAIN inflight
    /\ inflight[id].kind = "delete_instances"
    /\ inflight[id].pc = "commit"
    /\ LET r == inflight[id]
           out == FinishDelete(instances, events, fs,
                               [r.acc EXCEPT !.deleted = RowsNow(@)],
                               r.mode = "noop", commit_ok)
       IN  /\ instances' = out.instances
           /\ events' = out.events
           /\ inflight' = [inflight EXCEPT ![id] =
                 [r EXCEPT !.pc = "done", !.status = out.status,
                           !.result = out.result, !.commit = out.commit]]
    /\ UNCHANGED <<config, files, observations, fs, origin, manager, exchange>>

\* set_one_file_deletion_policy up to its commit: the lookups and the
\* loop over file.instances, read in the order `seen`.
BeginPolicy(id, seen) ==
    /\ id \in DOMAIN inflight
    /\ inflight[id].kind = "set_one_file_deletion_policy"
    /\ inflight[id].pc = "arrived"
    /\ LET r == inflight[id]
       IN  inflight' = [inflight EXCEPT ![id] =
              IF \/ StoreLookupFails(r.rts_arg)
                 \/ r.file_name \notin DOMAIN files
                 \/ FirstMatch(seen, StoreIdOf(r.rts_arg)) = {}
              THEN Refused(r)
              ELSE [r EXCEPT !.touched = FirstMatch(seen, StoreIdOf(r.rts_arg)),
                             !.pc = "commit"]]
    /\ UNCHANGED <<config, files, observations, instances, events, fs, origin, manager, exchange>>

\* Its commit: the UPDATE goes by primary key, and raises when the row is
\* no longer there.
CommitPolicy(id, commit_ok) ==
    /\ id \in DOMAIN inflight
    /\ inflight[id].kind = "set_one_file_deletion_policy"
    /\ inflight[id].pc = "commit"
    /\ LET r == inflight[id]
           ok == commit_ok /\ RowsNow(r.touched) /= {}
           deletion_policy == parse_safe(r.text)
       IN  /\ instances' = Commit(ok, instances,
                 SetPolicy(instances, RowsNow(r.touched), deletion_policy))
           /\ events' = Commit(ok, events,
                 AddEvents(events,
                    PolicyEvents(r.file_name, r.touched, deletion_policy)))
           /\ inflight' = [inflight EXCEPT ![id] =
                 [r EXCEPT !.pc = "done", !.status = AfterCommit(ok).status,
                           !.commit = AfterCommit(ok).commit]]
    /\ UNCHANGED <<config, files, observations, fs, origin, manager, exchange>>

\* The file the simultaneous requests are about, and its record.
SharedName == <<"zen", "2457000", "5", "uv">>
SharedFile ==
    File(SharedName, "uv", 10, "source", 1024,
         "d41d8cd98f00b204e9800998ecf8427e").file

\* The instance tables the requests may find: the file has no, one or two
\* instances, one per store at most, each with either policy.
StartTables ==
    {t \in SUBSET {FileInstance(st, "a", SharedName, pol) :
                      st \in Stores, pol \in PolicyArgs} :
        \A x, y \in t : Key(x) = Key(y) => x = y}

\* The log after the registration of those instances.
RECURSIVE StartLog(_, _)
StartLog(t, log) ==
    IF t = {} THEN log
    ELSE LET inst == CHOOSE x \in t : \A y \in t : x.store <= y.store
         IN  StartLog(t \ {inst},
                AddEvents(log, <<make_instance_creation_event(inst.name, inst)>>))

\* The requests that may arrive together.
Arrivals ==
    {Request("delete_instances", SharedName, "standard", "", rts_arg) :
        rts_arg \in {NoStore} \cup StoreNames}
    \cup {Request("set_one_file_deletion_policy", SharedName, "", text, rts_arg) :
            text \in {"allowed", "disallowed"},
            rts_arg \in {NoStore} \cup StoreNames}

\* Two requests about one file arrive at a server whose catalog has that
\* file and some instances of it.
ConcurrentInit ==
    /\ config = "none"
    /\ files = (SharedName :> SharedFile)
    /\ observations = {10}
    /\ instances \in StartTables
    /\ events = StartLog(instances, <<>>)
    /\ fs = {Key(r) : r \in instances}
    /\ inflight \in [RequestIds -> Arrivals]
    /\ origin = [instances |-> instances, events |-> events, fs |-> fs]
    /\ manager = NoManager
    /\ exchange = NoExchange

ConcurrentNext ==
    \E id \in RequestIds :
       \/ \E seen \in Enumerations(InstancesOf(instances, SharedName)) :
             BeginDelete(id, seen)
       \/ \E bad \in SUBSET Stores : VisitInstance(id, bad)
       \/ \E commit_ok \in BOOLEAN : CommitDelete(id, commit_ok)
       \/ \E seen \in Enumerations(InstancesOf(instances, SharedName)) :
             BeginPolicy(id, seen)
       \/ \E commit_ok \in BOOLEAN : CommitPolicy(id, commit_ok)

\* The server with two requests in progress, their steps in any order.
ConcurrentSpec == ConcurrentInit /\ [][ConcurrentNext]_vars

(* ---- C15 --------------------------------------------------------- *)

\* C15 as stated: in every step that physically deletes a replica, the
\* committed policy of its instance is ALLOWED at that moment; no
\* interleaving of a set_one_file_deletion_policy call with a
\* delete_instances call on the same file removes the replica of an
\* instance whose committed policy is DISALLOWED.
C15_AsStated ==
    [][\A k \in fs \ fs' :
          \E r \in instances : Key(r) = k /\ r.deletion_policy = ALLOWED]_vars

(* ---- C16 --------------------------------------------------------- *)

\* Both requests are deletions, restricted to different stores, and both
\* have ended.
TwoDisjointDeletesDone ==
    /\ \A id \in RequestIds :
          /\ inflight[id].kind = "delete_instances"
          /\ inflight[id].rts_arg \in StoreNames
          /\ inflight[id].pc = "done"
    /\ inflight["r1"].rts_arg /= inflight["r2"].rts_arg

\* What the request `id` would return and leave if it were served alone
\* on the tables and replicas `at`, under the given answers of the
\* environment.
Serially(id, at, insts, bad, commit_ok) ==
    delete_instances(at.instances, at.events, at.fs, insts,
                     inflight[id].mode, StoreIdOf(inflight[id].rts_arg),
                     bad, commit_ok)

\* Some run of the two requests one after the other, from the catalog they
\* arrived at, ends with the catalog and the replicas there are now, and
\* gives each request an outcome that Same(request, outcome) accepts.
SomeSerialRun(Same(_, _)) ==
    \E a \in RequestIds : \E b \in RequestIds \ {a} :
       \E bad_a \in SUBSET Stores, ok_a \in BOOLEAN,
          insts_a \in Enumerations(InstancesOf(origin.instances, SharedName)) :
          LET out_a == Serially(a, origin, insts_a, bad_a, ok_a)
          IN  \E bad_b \in SUBSET Stores, ok_b \in BOOLEAN,
                 insts_b \in Enumerations(InstancesOf(out_a.instances, SharedName)) :
                 LET out_b == Serially(b, out_a, insts_b, bad_b, ok_b)
                 IN  /\ out_b.instances = instances
                     /\ out_b.events = events
                     /\ out_b.fs = fs
                     /\ Same(inflight[a], out_a)
                     /\ Same(inflight[b], out_b)

SameResult(r, out) == r.status = out.status /\ r.result = out.result

SameButKept(r, out) ==
    /\ r.status = out.status
    /\ r.result.n_deleted = out.result.n_deleted
    /\ r.result.n_error = out.result.n_error
    /\ r.result.n_kept >= out.result.n_kept

\* C16 as stated: whatever the interleaving of two delete_instances
\* requests restricted to different stores, the final catalog, the
\* replicas deleted and the result of each request are those of a run of
\* the two one after the other.
C16_AsStated == TwoDisjointDeletesDone => SomeSerialRun(SameResult)

\* C16, amended: whatever the interleaving, the final catalog, the
\* replicas deleted, and for each request whether it raised, its n_deleted
\* and its n_error are those of a run of the two one after the other; its
\* n_kept is at least what that run gives, since it counts every instance
\* the request read, one the other request deletes meanwhile included.
C16_IndependentButForKept ==
    TwoDisjointDeletesDone => SomeSerialRun(SameButKept)

\* Both requests read the two ALLOWED instances before either committed,
\* each deleted its own, and each reports the other's as kept.
C16_Witness ==
    /\ TwoDisjointDeletesDone
    /\ \A id \in RequestIds :
          /\ inflight[id].status = "ok"
          /\ inflight[id].result = [n_deleted |-> 1, n_kept |-> 1, n_error |-> 0]
    /\ instances = {}
    /\ fs = {}

(* ---- C17 --------------------------------------------------------- *)

\* The cases in which no inference is to be made: the mode is "none" or
\* not a known one, or the name has fewer than four components.
NoInferencePossible(mode, name) ==
    \/ mode = "none"
    \/ mode \notin {"none", "hera", "_testing"}
    \/ mode \in {"hera", "_testing"} /\ Len(name) < 4

InferenceRefused(name) ==
    NoInferencePossible(config, name) =>
       /\ ~infer_file_obsid(files, config, name).ok
       /\ infer_file_obsid(files, config, name).obsid = None
       /\ infer_file_obsid(files, config, name).error = "ServerError"
       /\ name \notin DOMAIN files =>
             \A info \in InferenceInfos, commit_ok \in BOOLEAN :
                info.obsid = None =>
                   LET out == get_inferring_info(files, observations, config,
                                 name, "source", info, FALSE, FALSE, FALSE,
                                 commit_ok)
                   IN  /\ out.status = "ServerError"
                       /\ out.files = files
                       /\ out.observations = observations

\* C17: infer_file_obsid raises ServerError and returns no id when the
\* inference mode is "none", when it is not a known mode, and when the
\* name has fewer than four components in "hera" or "_testing" mode; an
\* ingest that needs the obsid inferred then fails and adds nothing.
C17_InferenceRefused == \A name \in Names : InferenceRefused(name)

\* In "hera" mode, with files in the catalog from which the obsid of a
\* four-component name is inferred, a three-component name is refused.
C17_Witness ==
    /\ config = "hera"
    /\ \E name \in Names : infer_file_obsid(files, config, name).ok
    /\ \E name \in Names :
          /\ Len(name) = 3
          /\ name \notin DOMAIN files
          /\ ~infer_file_obsid(files, config, name).ok

(* ---- C18 --------------------------------------------------------- *)

\* The existing files whose names start with the first three components
\* of the name followed by a '.', and the observation ids they carry.
StartingAlike(name) ==
    {m \in DOMAIN files : Len(m) >= 4 /\ SubSeq(m, 1, 3) = SubSeq(name, 1, 3)}

IdsStartingAlike(name) == {files[m].obsid : m \in StartingAlike(name)} \ {None}

SucceedsOnlyOnOneId(name) ==
    LET r == infer_file_obsid(files, "hera", name)
    IN  /\ r.ok => Cardinality(IdsStartingAlike(name)) = 1
        /\ r.ok => r.obsid \in IdsStartingAlike(name)
        /\ StartingAlike(name) = {} => ~r.ok
        /\ Cardinality(IdsStartingAlike(name)) >= 2 => ~r.ok

\* C18 as stated: in "hera" mode infer_file_obsid succeeds only if the
\* existing files whose names start with the first three components of
\* the name followed by '.' carry exactly one distinct observation id; it
\* fails when no file matches and when the matches carry two or more ids.
C18_AsStated ==
    config = "hera" =>
       \A name \in {n \in Names : Len(n) >= 4} : SucceedsOnlyOnOneId(name)

(* ---- C19 --------------------------------------------------------- *)

\* The rows the query of "hera" mode returns for a name, in every order
\* the database may return them.
CandidateLists(name) ==
    Enumerations(HeraQuery(files, SubSeq(name, 1, 3)))

\* The outcome does not depend on the order of the rows.
SameInAnyOrder(name) ==
    Len(name) >= 4 =>
       \A q1, q2 \in CandidateLists(name) :
          /\ FromCandidates(q1) = FromCandidates(q2)
          /\ FromCandidates(q1) = infer_file_obsid(files, "hera", name)

\* An ingest that has the obsid inferred: what it is given besides the
\* name, the mode and the File table has no part in the inference, and
\* the catalog changes by the new File and its observation at most, and
\* not at all when the inference or the commit fails.
InferenceOnlyReads(name) ==
    name \notin DOMAIN files =>
       \A info \in InferenceInfos, mc_invalid \in BOOLEAN, commit_ok \in BOOLEAN :
          info.obsid = None =>
             LET r == infer_file_obsid(files, config, name)
                 out == get_inferring_info(files, observations, config, name,
                           "source", info, FALSE, FALSE, mc_invalid, commit_ok)
             IN  /\ ~r.ok => /\ out.status = r.error
                             /\ out.files = files
                             /\ out.observations = observations
                 /\ out.status = "ok" =>
                       /\ r.ok
                       /\ out.file.obsid = r.obsid
                 /\ \A m \in DOMAIN files :
                       m \in DOMAIN out.files /\ out.files[m] = files[m]
                 /\ DOMAIN out.files \subseteq DOMAIN files \cup {name}
                 /\ observations \subseteq out.observations
                 /\ out.observations \subseteq observations \cup {r.obsid}

\* C19: the outcome of infer_file_obsid is fixed by the name, the mode and
\* the set of existing files: the same id, or failure, whatever the order
\* in which the database returns the rows and whatever else the ingest
\* was given; and the inference changes nothing in the catalog.
C19_InferenceIsDeterministic ==
    \A name \in Names : SameInAnyOrder(name) /\ InferenceOnlyReads(name)

\* In "hera" mode the query returns two rows, in either order, for one
\* name, and the inference succeeds for another.
C19_Witness ==
    /\ config = "hera"
    /\ \E name \in Names :
          Len(name) >= 4 /\ Cardinality(CandidateLists(name)) >= 2
    /\ \E name \in Names :
          name \notin DOMAIN files /\ infer_file_obsid(files, config, name).ok

(* ---- C20 --------------------------------------------------------- *)

\* P(call, out) for every, or for some, call of get_inferring_info that
\* can be made in the current state, with every answer of the
\* environment (at most one thing going wrong per call).
EveryIngest(P(_, _)) ==
    \A name \in Names, info \in IngestInfos \cup InferenceInfos,
       ext \in Externals, null_obsid \in BOOLEAN :
       P([name |-> name, info |-> info, ext |-> ext, null_obsid |-> null_obsid],
         get_inferring_info(files, observations, config, name, "source", info,
                            ext = "info_raises", null_obsid,
                            ext = "mc_invalid", ext /= "commit_fails"))

SomeIngest(P(_, _)) ==
    LET NotP(call, out) == ~P(call, out) IN ~EveryIngest(NotP)

\* The name is new, the digest is valid and the size not negative, and
\* the observation is given or can be inferred.
NewAndWellFormed(call) ==
    /\ call.name \notin DOMAIN files
    /\ normalize_and_validate_md5(call.info.md5).ok
    /\ call.info.size >= 0
    /\ ~call.null_obsid
    /\ \/ call.info.obsid /= None
       \/ /\ infer_file_obsid(files, config, call.name).ok
          /\ infer_file_obsid(files, config, call.name).obsid /= None

\* The File table of `out` is the one before the call with one record
\* more, under the name of the call.
OneFileMore(call, out) ==
    /\ DOMAIN out.files = DOMAIN files \cup {call.name}
    /\ \A m \in DOMAIN files : out.files[m] = files[m]
    /\ out.files[call.name] = out.file
    /\ out.file.name = call.name
    /\ out.file.size = call.info.size
    /\ out.file.md5 = normalize_and_validate_md5(call.info.md5).md5

ReturnsTheExisting(call, out) ==
    call.name \in DOMAIN files =>
       /\ out.status = "ok"
       /\ out.file = files[call.name]
       /\ out.files = files
       /\ out.observations = observations
       /\ ~out.created /\ out.commit = "none"

PersistsOne(call, out) ==
    NewAndWellFormed(call) /\ call.ext /= "info_raises" =>
       out.status = "ok" /\ out.created /\ OneFileMore(call, out)

SecondCallReturnsFirst(call, out) ==
    out.status = "ok" =>
       \A info \in IngestInfos \cup InferenceInfos, ext \in Externals,
          null_obsid \in BOOLEAN :
          LET again == get_inferring_info(out.files, out.observations, config,
                          call.name, "source", info, ext = "info_raises",
                          null_obsid, ext = "mc_invalid", ext /= "commit_fails")
          IN  /\ again.status = "ok"
              /\ again.file = out.file
              /\ again.files = out.files
              /\ again.observations = out.observations

PersistsOneOrNothing(call, out) ==
    NewAndWellFormed(call) =>
       /\ call.ext = "ok" =>
             out.status = "ok" /\ out.created /\ OneFileMore(call, out)
       /\ call.ext /= "ok" =>
             /\ out.status = "ServerError"
             /\ ~out.created
             /\ out.files = files
             /\ out.observations = observations

KnownNameOtherInfo(call, out) ==
    /\ call.name \in DOMAIN files
    /\ call.info.obsid /= files[call.name].obsid
    /\ call.info.obsid /= None
    /\ out.status = "ok"

NewNamePersisted(call, out) ==
    NewAndWellFormed(call) /\ out.created

NamesTried == Names \cup {<<"sub/zen", "2457000", "5", "uv">>}
SizesTried == {0 - 1, 0, 1024}

\* Constructing a File raises exactly when the name has a '/', the size
\* is negative or the digest is not one.
ConstructorValidates ==
    \A name \in NamesTried, size \in SizesTried, md5 \in Md5Texts,
       obsid \in Obsids \cup {None} :
       File(name, "uv", obsid, "store1", size, md5).ok
           <=> /\ ~HasSlash(name)
               /\ size >= 0
               /\ normalize_and_validate_md5(md5).ok

\* An ingest of a new name with a negative size, whatever else is true
\* of the request.
IllSizedIngests(P(_, _)) ==
    \A name \in Names \ DOMAIN files, info \in IngestInfos,
       null_obsid \in BOOLEAN, commit_ok \in BOOLEAN :
       info.size < 0 =>
           P([name |-> name, info |-> info, null_obsid |-> null_obsid],
             get_inferring_info(files, observations, config, name,
                                "store1", info, FALSE, null_obsid, FALSE,
                                commit_ok))

\* The ingest ends in an error and the File table is as it was.
RefusedUnpersisted(call, out) ==
    /\ out.status /= "ok"
    /\ ~out.created
    /\ out.files = files

\* Every File record of the catalog passed the validation.
PersistedFilesAreValid ==
    \A n \in DOMAIN files :
       /\ files[n].name = n
       /\ ~HasSlash(files[n].name)
       /\ files[n].size >= 0

\* C21: constructing a File whose name contains '/' or whose size is
\* negative fails with a validation error; an ingest that would
\* construct one persists no File record (and an ingest writes no Event
\* at all); hence every persisted File has a '/'-free name and a size
\* of at least 0.
C21_ValidationPrecedesPersistence ==
    /\ ConstructorValidates
    /\ IllSizedIngests(RefusedUnpersisted)
    /\ PersistedFilesAreValid

\* The size check itself is what refuses an ingest into a catalog that
\* holds files already.
RefusedForItsSize(call, out) ==
    /\ call.info.obsid /= None
    /\ ~call.null_obsid
    /\ out.status = "ValueError"

C21_Witness ==
    /\ files /= <<>>
    /\ LET NotRefused(call, out) == ~RefusedForItsSize(call, out)
       IN  ~IllSizedIngests(NotRefused)

(* ------------------------------------------------------------------ *)
(* A File record sent from one server to another                      *)
(* ------------------------------------------------------------------ *)

\* A naive datetime, as File.create_time holds it: the fields of a wall
\* clock with no zone attached, whole hours here.  File.__init__ fills
\* it from utcnow(), so the fields are those of the UTC clock.
Datetimes == [day : {1, 2}, hour : {0, 7, 23}]

\* The local zones a server may run in, as hours ahead of UTC.
UtcOffsets == {0 - 8, 0, 1}

\* calendar.timegm(t.timetuple()): the fields are read as UTC.
timegm(t) == t.day * 24 + t.hour

\* datetime.datetime.fromtimestamp(unix): the fields of the local clock
\* of the server that runs it at that instant.
fromtimestamp(unix, utc_offset) ==
    [day |-> (unix + utc_offset) \div 24,
     hour |-> (unix + utc_offset) % 24]

\* File.create_time_unix
create_time_unix(f) == timegm(f.create_time)

\* File.__init__ with create_time given: [ok, file].
FileAt(name, type, obsid, source, size, md5, create_time) ==
    LET made == File(name, type, obsid, source, size, md5)
    IN  [ok |-> made.ok,
         file |-> [name |-> name, type |-> type, obsid |-> obsid,
                   source |-> source, size |-> size, md5 |-> made.file.md5,
                   create_time |-> create_time]]

\* File.to_dict: a dict of six entries, `source` not among them.
to_dict(f) ==
    [name |-> f.name, type |-> f.type, create_time |-> create_time_unix(f),
     obsid |-> f.obsid, size |-> f.size, md5 |-> f.md5]

\* The entries File.from_dict requires of its info.
RequiredOfInfo == {"name", "type", "create_time", "size", "md5", "obsid"}

\* File.from_dict(source, info) on a server utc_offset hours ahead of
\* UTC: [status, file].  Every entry of a dict made by to_dict has the
\* type from_dict asks for.
from_dict(source, info, utc_offset) ==
    IF ~(RequiredOfInfo \subseteq DOMAIN info)
    THEN [status |-> "ServerError", file |-> <<>>]
    ELSE LET made == FileAt(info["name"], info["type"], info["obsid"],
                            source, info["size"], info["md5"],
                            fromtimestamp(info["create_time"], utc_offset))
         IN  [status |-> IF made.ok THEN "ok" ELSE "ValueError",
              file |-> made.file]

\* The valid File records a server may hold.
SourceNames == {"store1", "siteB"}
ValidFiles ==
    {FileAt(name, "uv", obsid, "store1", size,
            "d41d8cd98f00b204e9800998ecf8427e", t).file :
        name \in CatalogNames, obsid \in Obsids \cup {None},
        size \in {0, 1024}, t \in Datetimes}

\* What may be lost of a dict on its way.
LostEntries == {{}, {"obsid"}, {"size"}}

\* A server holds a valid File; another one, in some zone, is to get it.
ExchangeInit ==
    /\ config = "none"
    /\ files = <<>>
    /\ observations = {}
    /\ instances = {}
    /\ events = <<>>
    /\ fs = {}
    /\ inflight = <<>>
    /\ origin = [instances |-> {}, events |-> <<>>, fs |-> {}]
    /\ manager = NoManager
    /\ exchange \in [pc : {"held"}, file : ValidFiles, info : {<<>>},
                     utc_offset : UtcOffsets, status : {"none"},
                     received : {<<>>}]

\* The holder describes the File with to_dict and sends the dict.
ToDict(lost) ==
    /\ exchange.pc = "held"
    /\ LET info == to_dict(exchange.file)
       IN  exchange' = [exchange EXCEPT
               !.pc = "sent",
               !.info = [k \in DOMAIN info \ lost |-> info[k]]]
    /\ UNCHANGED <<config, files, observations, instances, events, fs, inflight, origin, manager>>

\* The receiver rebuilds the File with from_dict under a source of its
\* own.
FromDict(source) ==
    /\ exchange.pc = "sent"
    /\ \E out \in {from_dict(source, exchange.info, exchange.utc_offset)} :
          exchange' = [exchange EXCEPT !.pc = "received",
                                       !.status = out.status,
                                       !.received = out.file]
    /\ UNCHANGED <<config, files, observations, instances, events, fs, inflight, origin, manager>>

ExchangeNext ==
    \/ \E lost \in LostEntries : ToDict(lost)
    \/ \E source \in SourceNames : FromDict(source)

ExchangeSpec == ExchangeInit /\ [][ExchangeNext]_vars

(* ---- C22 --------------------------------------------------------- *)

\* The receiver has rebuilt a File from a complete dict.
Rebuilt == exchange.pc = "received" /\ exchange.status = "ok"

\* The rebuilt File agrees with the one held in the fields named.
AgreeIn(fields) ==
    \A k \in fields : exchange.received[k] = exchange.file[k]

\* C22 as stated: for every valid File f, File.from_dict(source,
\* f.to_dict()) yields a File equal to f in name, type, create_time,
\* obsid (null included), size and md5; only source may differ.
C22_AsStated ==
    /\ exchange.pc = "received" /\ DOMAIN exchange.info = RequiredOfInfo
           => exchange.status = "ok"
    /\ Rebuilt =>
           AgreeIn({"name", "type", "create_time", "obsid", "size", "md5"})

(* ------------------------------------------------------------------ *)
(* The rsync transfer manager                                         *)
(* ------------------------------------------------------------------ *)

\* socket.gethostname() where the manager runs, and the hostnames a
\* manager may be constructed with.
gethostname == "librarian1"
Hostnames == {"librarian1", "elsewhere"}

\* The (local_path, remote_path) pairs of a batch, and the batches.
Pairs == {<<"/data/a", "/incoming/a">>, <<"/data/b", "/incoming/b">>}
Batches ==
    {<<>>} \cup [1..1 -> Pairs] \cup [1..2 -> Pairs] \cup [1..3 -> Pairs]

\* How sysrsync.run(strict=True) may end: rsync exits with 0, rsync
\* exits with another code (sysrsync.RsyncError), or the call raises
\* something else, e.g. the OSError of a missing rsync executable.
RsyncAnswers == {"done", "RsyncError", "OSError"}
AnswersFor(paths) == [DOMAIN paths -> RsyncAnswers]

\* TransferStatus
INITIATED == "INITIATED"
COMPLETED == "COMPLETED"
FAILED == "FAILED"

\* RsyncAsyncTransferManager.valid
valid(mgr) == mgr.hostname = gethostname

\* RsyncAsyncTransferManager.transfer(local_path, remote_path), rsync
\* answering `answer`: [result, raised, runs], runs being the calls of
\* sysrsync.run it made.  Only sysrsync.RsyncError is caught.
transfer(mgr, pair, answer) ==
    [result |-> answer = "done", raised |-> answer = "OSError",
     runs |-> <<[source |-> pair[1], destination |-> pair[2],
                 destination_ssh |->
                     IF mgr.hostname /= gethostname THEN mgr.hostname
                     ELSE "None",
                 answer |-> answer]>>]

\* Fault variant of CopySuccess: the result of the last pair replaces
\* the one so far.
CopySuccessOfLast(copy_success, mgr, pair, answer) ==
    transfer(mgr, pair, answer)

\* copy_success and self.transfer(local_path=..., remote_path=...):
\* `and` evaluates its right operand only when the left one is true.
CopySuccess(copy_success, mgr, pair, answer) ==
    IF ~copy_success
    THEN [result |-> FALSE, raised |-> FALSE, runs |-> <<>>]
    ELSE transfer(mgr, pair, answer)

\* The for loop of batch_transfer from pair i on: [copy_success, raised,
\* runs].  An exception leaves the loop and the method.
RECURSIVE BatchLoop(_, _, _, _, _)
BatchLoop(mgr, paths, answers, i, acc) ==
    IF i > Len(paths) \/ acc.raised THEN acc
    ELSE LET step == CopySuccess(acc.copy_success, mgr, paths[i], answers[i])
         IN  BatchLoop(mgr, paths, answers, i + 1,
                       [copy_success |-> step.result,
                        raised |-> step.raised,
                        runs |-> acc.runs \o step.runs])

\* RsyncAsyncTransferManager.batch_transfer(paths): [manager, returned,
\* runs]; returned is "raised" when an exception leaves the method,
\* transfer_complete then keeping the value it had.
batch_transfer(mgr, paths, answers) ==
    LET loop == BatchLoop(mgr, paths, answers, 1,
                     [copy_success |-> TRUE, raised |-> FALSE, runs |-> <<>>])
    IN  [manager |-> [mgr EXCEPT
             !.transfer_attempted = TRUE,
             !.transfer_complete =
                 IF loop.raised THEN @ ELSE loop.copy_success],
         returned |-> IF loop.raised THEN "raised"
                      ELSE IF loop.copy_success THEN "True" ELSE "False",
         runs |-> loop.runs]

\* Fault variant of transfer_status: a manager that attempted nothing
\* counts as failed.
transfer_status_eager(mgr) ==
    IF mgr.transfer_complete THEN COMPLETED ELSE FAILED

\* RsyncAsyncTransferManager.transfer_status
transfer_status(mgr) ==
    IF mgr.transfer_complete THEN COMPLETED
    ELSE IF ~mgr.transfer_attempted THEN INITIATED
    ELSE FAILED

\* A manager as constructed, for this host or for another one.  Besides
\* the fields of the class the record keeps the last call made on it:
\* which method, its paths, rsync's answers, what it returned and the
\* sysrsync.run calls it made; `batches` tells whether batch_transfer
\* was ever called, `copied` which remote paths rsync has written.
TransferInit ==
    /\ config = "none"
    /\ files = <<>>
    /\ observations = {}
    /\ instances = {}
    /\ events = <<>>
    /\ fs = {}
    /\ inflight = <<>>
    /\ origin = [instances |-> {}, events |-> <<>>, fs |-> {}]
    /\ exchange = NoExchange
    /\ manager \in [hostname : Hostnames,
                    transfer_attempted : {FALSE},
                    transfer_complete : {FALSE},
                    call : {"none"}, paths : {<<>>}, answers : {<<>>},
                    returned : {"none"}, runs : {<<>>},
                    batches : {FALSE}, copied : {{}}]

\* The remote paths written by the runs that rsync completed.
Written(runs) ==
    {runs[i].destination : i \in {j \in DOMAIN runs : runs[j].answer = "done"}}

\* A call of batch_transfer.
BatchTransfer(paths, answers) ==
    /\ \E out \in {batch_transfer(
                      [hostname |-> manager.hostname,
                       transfer_attempted |-> manager.transfer_attempted,
                       transfer_complete |-> manager.transfer_complete],
                      paths, answers)} :
          manager' = [hostname |-> out.manager.hostname,
                      transfer_attempted |-> out.manager.transfer_attempted,
                      transfer_complete |-> out.manager.transfer_complete,
                      call |-> "batch_transfer", paths |-> paths,
                      answers |-> answers, returned |-> out.returned,
                      runs |-> out.runs, batches |-> TRUE,
                      copied |-> manager.copied \cup Written(out.runs)]
    /\ UNCHANGED <<config, files, observations, instances, events, fs, inflight, origin, exchange>>

\* A call of transfer on its own.
Transfer(pair, answer) ==
    /\ \E out \in {transfer(manager, pair, answer)} :
          manager' = [manager EXCEPT
              !.call = "transfer", !.paths = <<pair>>,
              !.answers = <<answer>>,
              !.returned = IF out.raised THEN "raised"
                           ELSE IF out.result THEN "True" ELSE "False",
              !.runs = out.runs,
              !.copied = @ \cup Written(out.runs)]
    /\ UNCHANGED <<config, files, observations, instances, events, fs, inflight, origin, exchange>>

TransferNext ==
    \/ \E paths \in Batches : \E answers \in AnswersFor(paths) :
          BatchTransfer(paths, answers)
    \/ \E pair \in Pairs, answer \in RsyncAnswers : Transfer(pair, answer)

TransferSpec == TransferInit /\ [][TransferNext]_vars

\* Properties of the last call made on the manager.
BatchReturned ==
    manager.call = "batch_transfer" /\ manager.returned \in {"True", "False"}

\* The pairs rsync was run on, in the order of the runs.
PairsRun == [i \in DOMAIN manager.runs |->
                <<manager.runs[i].source, manager.runs[i].destination>>]

AllAnswered(answer) ==
    \A i \in DOMAIN manager.paths : manager.answers[i] = answer

(* ---- C23 --------------------------------------------------------- *)

\* C23 as stated: batch_transfer attempts the transfer of every
\* (local_path, remote_path) pair of the batch in order, the pairs that
\* follow a failed one included; it does not stop attempting after the
\* first failure.
C23_AsStated == BatchReturned => PairsRun = manager.paths

(* ---- C24 --------------------------------------------------------- *)

\* Every run that was made completed, and every pair was run.
EveryPairCopied ==
    /\ PairsRun = manager.paths
    /\ \A i \in DOMAIN manager.runs : manager.runs[i].answer = "done"
    /\ \A i \in DOMAIN manager.paths : manager.paths[i][2] \in manager.copied

\* C24: batch_transfer returns True if and only if the transfer of every
\* pair of the batch succeeded, the logical AND over the sequence; True
\* for an empty batch.
C24_TrueIffAllSucceeded ==
    BatchReturned =>
        /\ manager.returned = "True" <=> AllAnswered("done")
        /\ manager.returned = "True" <=> EveryPairCopied
        /\ manager.paths = <<>> => manager.returned = "True"

\* A batch of three whose second pair failed and whose third would have
\* succeeded returned False.
C24_Witness ==
    /\ BatchReturned
    /\ Len(manager.paths) = 3
    /\ manager.answers = <<"done", "RsyncError", "done">>
    /\ manager.returned = "False"

(* ---- C25 --------------------------------------------------------- *)

\* The status is INITIATED exactly as long as batch_transfer was never
\* called.
InitiatedUntilAttempted ==
    transfer_status(manager) = INITIATED <=> ~manager.batches

\* After batch_transfer returned, the status tells how that batch went.
StatusTellsTheBatch ==
    BatchReturned =>
        /\ transfer_status(manager) = COMPLETED <=> AllAnswered("done")
        /\ transfer_status(manager) = FAILED <=> ~AllAnswered("done")

\* C25: transfer_status is INITIATED until the first batch_transfer
\* call; after a batch_transfer call returns it is COMPLETED if and only
\* if every pair of that batch succeeded and FAILED otherwise; once a
\* batch has been attempted the status never returns to INITIATED.
C25_StatusMachine ==
    /\ [](InitiatedUntilAttempted /\ StatusTellsTheBatch)
    /\ [][transfer_status(manager) /= INITIATED
              => transfer_status(manager') /= INITIATED]_vars

\* A manager whose last batch failed after it had copied something.
C25_Witness ==
    /\ BatchReturned
    /\ manager.returned = "False"
    /\ transfer_status(manager) = FAILED
    /\ manager.copied = {"/incoming/a", "/incoming/b"}

(* ---- C26 --------------------------------------------------------- *)

\* C26 as stated: when RsyncAsyncTransferManager.valid is False (its
\* hostname is not the current host), transfer and batch_transfer
\* perform no copy attempt.
C26_AsStated ==
    ~valid(manager) => manager.runs = <<>> /\ manager.copied = {}

(* ---- C27 --------------------------------------------------------- *)

\* C27 as stated: any exception raised by the transfer layer for one
\* pair is caught inside transfer and turned into a False result;
\* transfer and batch_transfer never propagate an exception to their
\* caller, a failing pair only makes the batch result False.
C27_AsStated ==
    /\ manager.returned /= "raised"
    /\ manager.call /= "none" /\ ~AllAnswered("done")
           => manager.returned = "False"

(* ---- C28 --------------------------------------------------------- *)

\* P(call, out) for every, or for some, create_file_event request that
\* can be made in the current state.
EveryCreateEvent(P(_, _)) ==
    \A file_name \in CatalogNames,
       type \in EventTypeArgs \cup {"instance_deletion_policy_changed"},
       payload \in PayloadArgs \cup PolicyEventArgs, commit_ok \in BOOLEAN :
       P([file_name |-> file_name, type |-> type, payload |-> payload,
          commit_ok |-> commit_ok],
         create_file_event(files, events, file_name, type, payload, commit_ok))

SomeCreateEvent(P(_, _)) ==
    LET NotP(call, out) == ~P(call, out) IN ~EveryCreateEvent(NotP)

UnknownFileRefused(call, out) ==
    call.file_name \notin DOMAIN files =>
       /\ out.status = "ServerError"
       /\ out.events = events

OneEventAppended(call, out) ==
    call.file_name \in DOMAIN files /\ call.commit_ok =>
       /\ out.status = "ok"
       /\ Len(out.events) = Len(events) + 1
       /\ SubSeq(out.events, 1, Len(events)) = events
       /\ out.events[Len(out.events)].name = call.file_name
       /\ out.events[Len(out.events)].type = call.type
       /\ out.events[Len(out.events)].payload = call.payload
       /\ \A i \in DOMAIN events :
             out.events[Len(out.events)].id /= events[i].id

RefusedOrAppended(call, out) ==
    UnknownFileRefused(call, out) /\ OneEventAppended(call, out)

\* A step that appends an event of a type only create_file_event writes.
NoteAppended ==
    /\ Len(events') = Len(events) + 1
    /\ events'[Len(events')].type \in EventTypeArgs

\* C28: create_file_event fails with an error and writes no Event when
\* the named file is unknown; when the file exists and the commit
\* succeeds it appends exactly one Event attached to that file, and it
\* changes no File or Instance record.
C28_RefusedOrAppended ==
    /\ [](EveryCreateEvent(RefusedOrAppended))
    /\ [][NoteAppended =>
             /\ files' = files
             /\ instances' = instances
             /\ SubSeq(events', 1, Len(events)) = events
             /\ events'[Len(events')].name \in DOMAIN files]_vars

AppendedToALog(call, out) ==
    /\ call.file_name \in DOMAIN files
    /\ out.status = "ok"
    /\ events /= <<>>
    /\ instances /= {}

RefusedForTheName(call, out) ==
    /\ call.file_name \notin DOMAIN files
    /\ out.status = "ServerError"

\* A catalog with a known and an unknown name, instances and events: a
\* request about the one appends, a request about the other is refused.
C28_Witness ==
    SomeCreateEvent(AppendedToALog) /\ SomeCreateEvent(RefusedForTheName)

(* ---- C29 --------------------------------------------------------- *)

\* The commit of the call was reached and failed.
CommitFailed(out) == out.commit = "rolled_back"

PolicyNotFlipped(call, out) ==
    CommitFailed(out) =>
       /\ out.status = "ServerError"
       /\ out.instances = instances
       /\ out.events = events

NoEventAdded(call, out) ==
    CommitFailed(out) =>
       /\ out.status = "ServerError"
       /\ out.events = events

NoFileAdded(call, out) ==
    CommitFailed(out) =>
       /\ out.status = "ServerError"
       /\ ~out.created
       /\ out.files = files

\* C29: when the commit in set_one_file_deletion_policy, in
\* create_file_event or in get_inferring_info fails, the operation rolls
\* back and raises an error, and the persisted catalog is unchanged: the
\* policy is not flipped, no Event is added and no File is added.
C29_NoPartialWrite ==
    /\ EverySetPolicy(PolicyNotFlipped)
    /\ EveryCreateEvent(NoEventAdded)
    /\ EveryIngest(NoFileAdded)

PolicyCommitFails(call, out) ==
    /\ CommitFailed(out)
    /\ \E r \in out.touched : r.deletion_policy /= parse_safe(call.text)

EventCommitFails(call, out) == CommitFailed(out) /\ events /= <<>>

FileCommitFails(call, out) == CommitFailed(out) /\ files /= <<>>

\* A catalog with files, instances and events in which each of the three
\* handlers can reach its commit and have it fail, the policy change
\* being a real one.
C29_Witness ==
    /\ SomeSetPolicy(PolicyCommitFails)
    /\ SomeCreateEvent(EventCommitFails)
    /\ SomeIngest(FileCommitFails)

(* ---- C30 --------------------------------------------------------- *)

\* Both requests are deletions of the same file in mode 'standard'.
TwoDeletes == \A id \in RequestIds : inflight[id].kind = "delete_instances"

\* Both have ended.
TwoDeletesDone == TwoDeletes /\ \A id \in RequestIds : inflight[id].pc = "done"

\* The requests in which store._delete succeeded on the replica k.
DeletedBy(k) == {id \in RequestIds : k \in inflight[id].acc.unlinked}

\* The committed delete_instance events about the replica k.
DeletionRecordsOf(k) ==
    {i \in DOMAIN events :
        events[i].type = "delete_instance" /\ EventKey(events[i]) = k}

\* C30 as stated: when two delete_instances calls (mode 'standard') on
\* the same File are interleaved, each Instance is physically deleted at
\* most once, at most one delete_instance Event is committed for it, and
\* the two calls' n_deleted counts add up to the number of Instance rows
\* actually removed.
C30_AsStated ==
    /\ TwoDeletes =>
          \A k \in Keys(origin.instances) : Cardinality(DeletedBy(k)) <= 1
    /\ TwoDeletesDone =>
          /\ \A k \in Keys(origin.instances) :
                Cardinality(DeletionRecordsOf(k)) <= 1
          /\ (\A id \in RequestIds : inflight[id].status = "ok") =>
                inflight["r1"].result.n_deleted
                      + inflight["r2"].result.n_deleted
                   = Cardinality(origin.instances \ instances)

(* ---- C31 --------------------------------------------------------- *)

\* A call that names a store and gets as far as the loop, in either mode.
Restricted(call) ==
    /\ call.mode \in {"standard", "noop"}
    /\ call.file_name \in DOMAIN files
    /\ call.rts_arg \in StoreNames

\* The instances of the file on another store than the one named.
OnOtherStores(call) ==
    {r \in Concerned(call) : r.store /= StoreTable[call.rts_arg]}

StoreFilterFrame(call, out) ==
    Restricted(call) =>
       /\ \A r \in OnOtherStores(call) :
             /\ r \in out.instances
             /\ Key(r) \in fs => Key(r) \in out.fs
             /\ Key(r) \notin out.called
       /\ out.status = "ok" =>
             /\ out.result.n_kept >= Cardinality(OnOtherStores(call))
             /\ out.result.n_kept =
                   Cardinality(OnOtherStores(call)) +
                   Cardinality({r \in Concerned(call) \ OnOtherStores(call) :
                                   r.deletion_policy /= ALLOWED})

\* C31: when delete_instances is given restrict_to_store, every Instance
\* on another store is counted as kept, and after the call its row, its
\* deletion_policy and its physical replica are unchanged, even if its
\* policy is ALLOWED.
C31_StoreFilterFrame == EveryDelete(StoreFilterFrame)

DeletesBesideAnAllowedOne(call, out) ==
    /\ Restricted(call) /\ call.mode = "standard"
    /\ \E r \in OnOtherStores(call) :
          r.deletion_policy = ALLOWED /\ Key(r) \in fs
    /\ out.status = "ok"
    /\ out.result = [n_deleted |-> 1, n_kept |-> 1, n_error |-> 0]

\* A file with an ALLOWED instance on each store: a call restricted to
\* one store deletes there and keeps the other.
C31_Witness == SomeDelete(DeletesBesideAnAllowedOne)

(* ---- C32 --------------------------------------------------------- *)

\* P(call, dry, real) for every pair of a call in mode 'noop' and a call
\* in mode 'standard' with the same file and store filter that can be
\* made in the current state, whatever the order in which each reads the
\* instances and whichever stores cannot be reached.
EveryDryAndRealRun(P(_, _, _)) ==
    \A file_name \in CatalogNames, rts_arg \in StoreArgs :
       \A dry_insts, insts \in Enumerations(InstancesOf(instances, file_name)),
          bad \in SUBSET Stores :
          P([file_name |-> file_name, rts_arg |-> rts_arg, bad |-> bad,
             mode |-> "standard"],
            delete_file_instances(files, instances, events, fs, file_name,
                                  "noop", rts_arg, dry_insts, bad, TRUE),
            delete_file_instances(files, instances, events, fs, file_name,
                                  "standard", rts_arg, insts, bad, TRUE))

DryRunMatches(call, dry, real) ==
    /\ dry.status = "ok" <=> real.status = "ok"
    /\ dry.instances = instances /\ dry.events = events /\ dry.fs = fs
    /\ dry.status = "ok" =>
          /\ dry.result.n_error = 0
          /\ dry.result.n_kept = real.result.n_kept
          /\ dry.result.n_deleted = Cardinality(Eligible(call))
          /\ dry.result.n_deleted
                = real.result.n_deleted + real.result.n_error

\* C32: for any catalog state, delete_instances in mode 'noop' returns
\* n_error = 0, the same n_kept as mode 'standard' would on that state,
\* and n_deleted equal to the number of Instances that are ALLOWED and
\* match the store filter (standard's n_deleted + n_error).
C32_DryRunMatches == EveryDryAndRealRun(DryRunMatches)

DryDeletesWhereRealFails(call, dry, real) ==
    /\ dry.status = "ok"
    /\ dry.result = [n_deleted |-> 2, n_kept |-> 0, n_error |-> 0]
    /\ real.result = [n_deleted |-> 1, n_kept |-> 0, n_error |-> 1]

DryKeepsAsReal(call, dry, real) ==
    /\ dry.status = "ok"
    /\ call.rts_arg \in StoreNames
    /\ dry.result = [n_deleted |-> 1, n_kept |-> 1, n_error |-> 0]
    /\ real.result = [n_deleted |-> 0, n_kept |-> 1, n_error |-> 1]

\* A file with an ALLOWED instance on each store, one store out of
\* reach: the dry run counts as deleted what the real run deletes or
\* fails on, with and without a store filter.
C32_Witness ==
    LET NotA(call, dry, real) == ~DryDeletesWhereRealFails(call, dry, real)
        NotB(call, dry, real) == ~DryKeepsAsReal(call, dry, real)
    IN  ~EveryDryAndRealRun(NotA) /\ ~EveryDryAndRealRun(NotB)

(* ------------------------------------------------------------------ *)
(* One set_one_file_deletion_policy call, then deletion requests      *)
(* ------------------------------------------------------------------ *)

\* The instance tables the scenario starts from: the file has two, three
\* or four instances, on either store and in either directory, all with
\* policy DISALLOWED.
BarrierTables ==
    {t \in SUBSET {FileInstance(st, pd, SharedName, DISALLOWED) :
                      st \in Stores, pd \in {"a", "b"}} :
        Cardinality(t) >= 2}

\* The one request that sets a policy to ALLOWED is waiting to be served;
\* `origin` keeps the tables it finds.
BarrierInit ==
    /\ config = "none"
    /\ files = (SharedName :> SharedFile)
    /\ observations = {10}
    /\ instances \in BarrierTables
    /\ events = <<>>
    /\ fs = {Key(r) : r \in instances}
    /\ inflight \in [{"r1"} ->
          {Request("set_one_file_deletion_policy", SharedName, "", "allowed",
                   rts_arg) : rts_arg \in StoreArgs}]
    /\ origin = [instances |-> instances, events |-> events, fs |-> fs]
    /\ manager = NoManager
    /\ exchange = NoExchange

\* That request is served: /api/set_one_file_deletion_policy.
ServeOnePolicy(insts, commit_ok) ==
    /\ inflight["r1"].pc = "arrived"
    /\ \E out \in {set_one_file_deletion_policy(files, instances, events,
                      inflight["r1"].file_name, inflight["r1"].text,
                      inflight["r1"].rts_arg, insts, commit_ok)} :
          /\ instances' = out.instances
          /\ events' = out.events
          /\ inflight' = [inflight EXCEPT !["r1"] =
                [@ EXCEPT !.pc = "done", !.status = out.status,
                          !.touched = out.touched, !.commit = out.commit]]
    /\ UNCHANGED <<config, files, observations, fs, origin, manager, exchange>>

\* A request to /api/delete_file_instances, before or after it.
ServeDelete(mode, rts_arg, insts, bad, commit_ok) ==
    /\ \E out \in {delete_file_instances(files, instances, events, fs,
                      SharedName, mode, rts_arg, insts, bad, commit_ok)} :
          /\ instances' = out.instances
          /\ events' = out.events
          /\ fs' = out.fs
    /\ UNCHANGED <<config, files, observations, inflight, origin, manager, exchange>>

BarrierNext ==
    \/ \E insts \in Enumerations(InstancesOf(instances, SharedName)),
          commit_ok \in BOOLEAN : ServeOnePolicy(insts, commit_ok)
    \/ \E insts \in Enumerations(InstancesOf(instances, SharedName)),
          mode \in ModeTexts, rts_arg \in StoreArgs, bad \in SUBSET Stores,
          commit_ok \in BOOLEAN :
          ServeDelete(mode, rts_arg, insts, bad, commit_ok)

BarrierSpec == BarrierInit /\ [][BarrierNext]_vars

(* ---- C33 --------------------------------------------------------- *)

\* The instances and the replicas the file has lost since the start.
RowsLost == Keys(origin.instances) \ Keys(instances)
ReplicasLost == origin.fs \ fs

\* C33: starting from a file with two or more Instances that are all
\* DISALLOWED, a single set_one_file_deletion_policy(..., 'allowed') call
\* followed by any number of delete_instances calls removes at most one
\* Instance, so at least one Instance of the file remains.
C33_OneInstanceBarrier ==
    /\ Cardinality(RowsLost) <= 1
    /\ Cardinality(ReplicasLost) <= 1
    /\ RowsLost \subseteq Keys(inflight["r1"].touched)
    /\ ReplicasLost \subseteq Keys(inflight["r1"].touched)
    /\ Cardinality(instances) >= 1
    /\ Cardinality({r \in instances : r.deletion_policy = ALLOWED}) <= 1

\* The call was served and a deletion request removed the one instance
\* it opened, of a file that had four.
C33_Witness ==
    /\ Cardinality(origin.instances) = 4
    /\ inflight["r1"].status = "ok"
    /\ Cardinality(RowsLost) = 1
    /\ RowsLost = ReplicasLost
    /\ \A r \in instances : r.deletion_policy = DISALLOWED

(* ---- C34 --------------------------------------------------------- *)

ObsidNullOnlyOnRequest(call, out) ==
    /\ (/\ call.name \notin DOMAIN files
        /\ call.ext /= "info_raises"
        /\ call.null_obsid
        /\ call.info.obsid /= None) =>
          /\ out.status = "ServerError"
          /\ ~out.created
          /\ out.files = files
    /\ ~call.null_obsid /\ out.created =>
          /\ out.file.obsid /= None
          /\ \/ out.file.obsid = call.info.obsid
             \/ /\ call.info.obsid = None
                /\ infer_file_obsid(files, config, call.name).ok
                /\ out.file.obsid
                      = infer_file_obsid(files, config, call.name).obsid

InfersAnExistingId(name) ==
    LET r == infer_file_obsid(files, "hera", name)
    IN  /\ r.ok =>
           /\ r.obsid /= None
           /\ \E m \in StartingAlike(name) : files[m].obsid = r.obsid
        /\ (StartingAlike(name) /= {} /\ IdsStartingAlike(name) = {}) => ~r.ok

\* C35 as stated: in 'hera' mode a successful infer_file_obsid returns a
\* non-null observation id that is the obsid of at least one existing
\* File sharing the three-component name prefix; a prefix whose only
\* matching Files have a null obsid does not produce a successful result.
C35_AsStated ==
    config = "hera" =>
       \A name \in {n \in Names : Len(n) >= 4} : InfersAnExistingId(name)


(* ------------------------------------------------------------------ *)
(* batch_transfer in flight, its status read from another thread      *)
(* ------------------------------------------------------------------ *)

\* A manager as constructed, with the position of the thread that runs
\* batch_transfer: pc is "idle" outside the method and "loop" inside
\* it, i the index of the next pair, copy_success the local of that
\* name, outcomes what became of the pairs passed so far ("skipped"
\* for one that `and` did not run).  seen is the last reading of
\* transfer_status made by the other thread, with what was true of the
\* batch when it was made.
NotSeen ==
    [status |-> "none", in_flight |-> FALSE, outcomes |-> <<>>, paths |-> <<>>]
InFlightInit ==
    /\ config = "none"
    /\ files = <<>>
    /\ observations = {}
    /\ instances = {}
    /\ events = <<>>
    /\ fs = {}
    /\ inflight = <<>>
    /\ origin = [instances |-> {}, events |-> <<>>, fs |-> {}]
    /\ exchange = NoExchange
    /\ manager \in [hostname : Hostnames,
                    transfer_attempted : {FALSE},
                    transfer_complete : {FALSE},
                    pc : {"idle"}, paths : {<<>>}, i : {1},
                    copy_success : {TRUE}, outcomes : {<<>>},
                    returned : {"none"}, seen : {NotSeen}]

\* batch_transfer up to its loop: copy_success = True and
\* self.transfer_attempted = True.
BeginBatch(paths) ==
    /\ manager.pc = "idle"
    /\ manager' = [manager EXCEPT
           !.pc = "loop", !.paths = paths, !.i = 1,
           !.copy_success = TRUE, !.outcomes = <<>>,
           !.returned = "none",
           !.transfer_attempted = TRUE]
    /\ UNCHANGED <<config, files, observations, instances, events, fs, inflight, origin, exchange>>

\* One pass of the loop, rsync answering `answer`.  An exception that
\* transfer does not catch leaves the method.
TransferPair(answer) ==
    /\ manager.pc = "loop"
    /\ manager.i <= Len(manager.paths)
    /\ \E step \in {CopySuccess(manager.copy_success, manager,
                                manager.paths[manager.i], answer)} :
          manager' =
             IF step.raised
             THEN [manager EXCEPT !.pc = "idle", !.returned = "raised",
                      !.outcomes = Append(@, answer)]
             ELSE [manager EXCEPT
                      !.copy_success = step.result,
                      !.i = @ + 1,
                      !.outcomes = Append(@,
                          IF step.runs = <<>> THEN "skipped" ELSE answer)]
    /\ UNCHANGED <<config, files, observations, instances, events, fs, inflight, origin, exchange>>

\* After the loop: self.transfer_complete = copy_success and the
\* return.
EndBatch ==
    /\ manager.pc = "loop"
    /\ manager.i > Len(manager.paths)
    /\ manager' = [manager EXCEPT
           !.pc = "idle",
           !.transfer_complete = manager.copy_success,
           !.returned = IF manager.copy_success THEN "True" ELSE "False"]
    /\ UNCHANGED <<config, files, observations, instances, events, fs, inflight, origin, exchange>>

\* The other thread reads transfer_status.
ReadStatus ==
    /\ manager' = [manager EXCEPT
           !.seen = [status |-> transfer_status(manager),
                     in_flight |-> manager.pc = "loop",
                     outcomes |-> manager.outcomes,
                     paths |-> manager.paths]]
    /\ UNCHANGED <<config, files, observations, instances, events, fs, inflight, origin, exchange>>

InFlightNext ==
    \/ \E paths \in Batches : BeginBatch(paths)
    \/ \E answer \in RsyncAnswers : TransferPair(answer)
    \/ EndBatch
    \/ ReadStatus

InFlightSpec == InFlightInit /\ [][InFlightNext]_vars

(* ---- C36 --------------------------------------------------------- *)

\* What a reading says of the batch it was made during.
SeenAPairFail ==
    \E k \in DOMAIN manager.seen.outcomes :
        manager.seen.outcomes[k] \in {"RsyncError", "OSError"}
SeenEveryPairSucceed ==
    /\ Len(manager.seen.outcomes) = Len(manager.seen.paths)
    /\ \A k \in DOMAIN manager.seen.outcomes :
          manager.seen.outcomes[k] = "done"

\* C36 as stated: while a batch_transfer is in flight, a reading of
\* transfer_status from the other thread is FAILED only if a pair of
\* that batch has already failed, and is COMPLETED only if every pair
\* of that batch has succeeded.
C36_AsStated ==
    manager.seen.in_flight =>
        /\ manager.seen.status = FAILED => SeenAPairFail
        /\ manager.seen.status = COMPLETED => SeenEveryPairSucceed


(* ---- C37 --------------------------------------------------------- *)

\* Every row of file_instance and every row of file_event names a row
\* of file.
InstancesNameFiles(insts, fls) == \A r \in insts : r.name \in DOMAIN fls
EventsNameFiles(evs, fls) == \A k \in DOMAIN evs : evs[k].name \in DOMAIN fls
ReferentialIntegrity ==
    /\ InstancesNameFiles(instances, files)
    /\ EventsNameFiles(events, files)

\* What a step commits: the rows of file_instance and file_event it
\* adds name files of the catalog it leaves, and it removes no file.
CommitsForKnownFiles ==
    /\ InstancesNameFiles(instances' \ instances, files')
    /\ \A k \in DOMAIN events' :
          k > Len(events) => events'[k].name \in DOMAIN files'
    /\ DOMAIN files \subseteq DOMAIN files'

\* C37: in every reachable committed state of the catalog each
\* FileInstance and each FileEvent names a File of the catalog, and no
\* request commits an instance or an event for an unknown file name.
C37_ReferentialIntegrity ==
    []ReferentialIntegrity /\ [][CommitsForKnownFiles]_vars

\* A catalog with a file, a replica of it and an event that a request
\* appended about it (a note, a policy change or a deletion), while
\* another name requests are made about is not that of a file.
C37_Witness ==
    /\ instances /= {}
    /\ \E k \in DOMAIN events : events[k].type /= "create_instance"
    /\ \E n \in CatalogNames : n \notin DOMAIN files
    /\ ReferentialIntegrity

====
